---------------------------- MODULE Spec2Model ----------------------------
(***************************************************************************)
(* webview-rpc: the message correlation and dispatch protocol of the web   *)
(* client (packages/web/src/client.ts) and of the native client            *)
(* (packages/native/src/client.ts), joined by the WebView message bridge.  *)
(*                                                                         *)
(* Each handler of the source is a function from the state before it runs  *)
(* to the state after it; an action applies one handler to the current     *)
(* state.  An await is a separate step: handleRequest is its synchronous   *)
(* part (up to the await) followed by its continuation.                    *)
(***************************************************************************)
EXTENDS Integers, Sequences, FiniteSets, Bags, TLC

VARIABLES
    caller,             \* the client that issues the calls of this run; its
                        \* peer registers the handlers and answers them
    isWebView,          \* web: const isWebView, computed once by createWebClient
    bridge,             \* web: window.ReactNativeWebView is defined right now
    webViewRef,         \* native: webViewRef.current is non-null
    listening,          \* web: handleMessage is attached to window 'message'
    timeoutOpt,         \* options.timeout of each client: {} (not given) or {ms}
    nextId,             \* number of correlation ids generated so far, plus one
    calls,              \* the promise and the timer created by each call
    pendingRequests,    \* per client: Map<id, {resolve, reject, timeoutId}>
    procedureHandlers,  \* web: Map<procedure, handler>
    eventHandlers,      \* web: Map<event, Set<handler>>: the Set object stored
                        \* under each name (0: no entry)
    nativeHandlers,     \* native: Map<name, Set<handler>>, likewise
    sets,               \* the Set objects in use: their handlers, in insertion order
    unregisters,        \* the unregister functions returned and not yet called
    running,            \* handler invocations suspended at the await
    chan,               \* per client: the serialized messages on their way to it
    errorSink,          \* per client: the errors the last step passed to onError?.()
    unhandled,          \* per client: the last step ended in an unhandled rejection
    invoked,            \* the event listeners the last step invoked, in order
    cleaned,            \* per client: cleanup() was called on it (recorded in
                        \* the runs of a receiving client only)
    handled,            \* per request id: what the receiving client did with it
    hooks               \* the state of the React hooks of one component

vars == <<caller, isWebView, bridge, webViewRef, listening, timeoutOpt, nextId, calls,
          pendingRequests, procedureHandlers, eventHandlers, nativeHandlers,
          sets, unregisters, running, chan, errorSink, unhandled, invoked,
          cleaned, handled, hooks>>

-----------------------------------------------------------------------------
(* Bounds *)

MaxIds == 2             \* correlation ids generated in one run
MaxSets == 3            \* Set objects in use at one time
MaxInFlight == 2        \* messages on their way to one client at one time

(* Program constants *)

DefaultTimeout == 5000
CustomTimeout == 100

-----------------------------------------------------------------------------
(* Vocabulary *)

Clients == {"web", "native"}
Peer(c) == IF c = "web" THEN "native" ELSE "web"

Procedures == {"op"}
Events == {"evt"}
Names == Procedures \cup Events
Handlers == {"h1", "h2"}

Ids == 1..MaxIds
SetIds == 1..MaxSets

\* Payload values: a plain JSON value, a Date, undefined, and an object with a
\* circular reference.  "iso" is the string JSON.stringify makes of a Date.
Payloads == {"v", "date", "undef", "circ"}
CallData == {"v", "circ"}
Returned == {"v", "date", "circ"}

NoError == [code |-> "-", message |-> "-"]
Error(code, message) == [code |-> code, message |-> message]

\* What a request handler does when invoked: return a value, or throw an
\* Error (an Error has no code).
Outcomes ==
    [kind : {"return"}, value : Returned, error : {NoError}]
    \cup [kind : {"throw"}, value : {"undef"}, error : {Error("none", "boom")}]

NotHandled == [kind |-> "none", value |-> "undef", error |-> NoError]
NoHandler == [kind |-> "nohandler", value |-> "undef", error |-> NoError]

\* The TypeError of reading a property of undefined.
TypeError == Error("none", "Cannot read properties of undefined")

-----------------------------------------------------------------------------
(* packages/core: messages, errors, transport, correlation ids *)

RequestMessage(id, procedure, data) ==
    [type |-> "request", id |-> id, name |-> procedure, data |-> data,
     error |-> NoError]

ResponseMessage(id, data) ==
    [type |-> "response", id |-> id, name |-> "-", data |-> data,
     error |-> NoError]

ErrorResponseMessage(id, message, code) ==
    [type |-> "response", id |-> id, name |-> "-", data |-> "undef",
     error |-> Error(code, message)]

EventMessage(id, event, data) ==
    [type |-> "event", id |-> id, name |-> event, data |-> data,
     error |-> NoError]

\* new WebViewRPCError(message, code)
WebViewRPCError(message, code) ==
    [code |-> code, message |-> message, timeout |-> 0]

\* new WebViewRPCTimeoutError(message, timeout): code is always 'TIMEOUT'
WebViewRPCTimeoutError(message, timeout) ==
    [code |-> "TIMEOUT", message |-> message, timeout |-> timeout]

\* A plain Error, or whatever object was thrown: no timeout field.
PlainError(e) == [code |-> e.code, message |-> e.message, timeout |-> 0]

NoRejection == [code |-> "-", message |-> "-", timeout |-> 0]

\* JSON.stringify throws on a circular structure.
SerializerThrows(message) == message.data = "circ"

\* JSON.stringify: a Date becomes its ISO string, a property whose value is
\* undefined is left out of the text.
defaultSerializer_nullForUndefined(message) ==
    [message EXCEPT !.data = CASE @ = "date" -> "iso"
                               [] @ = "undef" -> "null"
                               [] OTHER -> @]

defaultSerializer(message) ==
    [message EXCEPT !.data = CASE @ = "date" -> "iso"
                               [] @ = "undef" -> "absent"
                               [] OTHER -> @]

\* JSON.parse: reading a property the text does not have yields undefined.
defaultDeserializer(raw) ==
    [raw EXCEPT !.data = IF @ = "absent" THEN "undef" ELSE @]

\* generateCorrelationId(): a random UUID v4 (122 random bits).  The k-th id
\* generated is named k: ids are fresh.
generateCorrelationId_repeats(s) == IF s.nextId > 1 THEN s.nextId - 1 ELSE s.nextId

generateCorrelationId(s) == s.nextId


-----------------------------------------------------------------------------
(* The state a handler works on, and the primitives of the runtime *)

\* The state a step starts from, as one record: the current state, with
\* nothing reported yet and no exception in flight (exc).
S ==
    [nextId |-> nextId, calls |-> calls, pendingRequests |-> pendingRequests,
     procedureHandlers |-> procedureHandlers, eventHandlers |-> eventHandlers,
     nativeHandlers |-> nativeHandlers, sets |-> sets,
     unregisters |-> unregisters, running |-> running, chan |-> chan,
     errorSink |-> [c \in Clients |-> {}],
     unhandled |-> [c \in Clients |-> FALSE],
     invoked |-> <<>>, cleaned |-> cleaned,
     handled |-> handled, listening |-> listening, hooks |-> hooks,
     exc |-> NoError]

\* The Set objects something still refers to: a registry, or an unregister
\* function that was not called yet.  The others are garbage.
Referenced(s) ==
    {s.eventHandlers[n] : n \in Names} \cup {s.nativeHandlers[n] : n \in Names}
    \cup {u.handlers : u \in s.unregisters}

Assign(s) ==
    /\ nextId' = s.nextId
    /\ calls' = s.calls
    /\ pendingRequests' = s.pendingRequests
    /\ procedureHandlers' = s.procedureHandlers
    /\ eventHandlers' = s.eventHandlers
    /\ nativeHandlers' = s.nativeHandlers
    /\ sets' = [i \in DOMAIN s.sets \cap Referenced(s) |-> s.sets[i]]
    /\ unregisters' = s.unregisters
    /\ invoked' = s.invoked
    /\ cleaned' = s.cleaned
    /\ running' = s.running
    /\ chan' = s.chan
    /\ errorSink' = s.errorSink
    /\ unhandled' = s.unhandled
    /\ handled' = s.handled
    /\ listening' = s.listening
    /\ hooks' = s.hooks
    /\ UNCHANGED <<caller, isWebView, bridge, webViewRef, timeoutOpt>>

\* new Promise(...): pending, no timer yet.
NewPromise(owner, id) ==
    [owner |-> owner, id |-> id, state |-> "pending", by |-> "-", value |-> "-",
     error |-> NoRejection, settles |-> 0, timer |-> "none"]

\* resolve(value) of call n's promise.  Only the first resolve or reject of a
\* promise has an effect; settles counts them all (2 stands for "twice or
\* more"), by records the code path of the first.
resolve(s, n, by, value) ==
    [s EXCEPT !.calls[n] =
        IF @.settles = 0
        THEN [@ EXCEPT !.state = "resolved", !.by = by, !.value = value,
                       !.settles = 1]
        ELSE [@ EXCEPT !.settles = 2]]

\* reject(error) of call n's promise.
reject(s, n, by, error) ==
    [s EXCEPT !.calls[n] =
        IF @.settles = 0
        THEN [@ EXCEPT !.state = "rejected", !.by = by, !.error = error,
                       !.settles = 1]
        ELSE [@ EXCEPT !.settles = 2]]

\* setTimeout(callback, timeout) of call n: the timer is armed.
setTimeout(s, n) == [s EXCEPT !.calls[n].timer = "armed"]

\* clearTimeout(timeoutId): an armed timer will not fire any more.
clearTimeout(s, t) ==
    [s EXCEPT !.calls[t].timer = IF @ = "armed" THEN "cleared" ELSE @]

\* Map.prototype.delete / set on one client's pendingRequests.
MapDelete(map, key) == [k \in DOMAIN map \ {key} |-> map[k]]
MapSet(map, key, value) ==
    [k \in DOMAIN map \cup {key} |-> IF k = key THEN value ELSE map[k]]
EmptyMap == [k \in {} |-> 0]

\* new Set(): an object not in use so far.
NewSet(s) == CHOOSE i \in SetIds : i \notin DOMAIN s.sets

\* Map.get(name) of a registry of Sets: the handlers of the Set stored under
\* the name, none when there is no entry.
SetAt(s, handlers) == IF handlers = 0 THEN <<>> ELSE s.sets[handlers]

\* The unregister function returned by a registration: it closes over the Set
\* object handlers (0 for web.handle, which has none), the name and the handler.
\* spent records that the function was called, or that cleanup() ran, since
\* the registration.
Unregister(c, handlers, name, handler) ==
    [client |-> c, handlers |-> handlers, name |-> name, handler |-> handler,
     spent |-> FALSE]

\* The set of a seq's elements; a Set keeps insertion order and no duplicates.
Range(seq) == {seq[i] : i \in DOMAIN seq}
SetAdd(seq, h) == IF h \in Range(seq) THEN seq ELSE Append(seq, h)
SetDelete(seq, h) == SelectSeq(seq, LAMBDA x : x # h)

\* The bridge hands the serialized text to the peer's side.
Transmit(s, to, raw) == [s EXCEPT !.chan[to] = @ (+) SetToBag({raw})]

\* onError?.(error) of client c; at says where the error was caught.
onError(s, c, at, id, error) ==
    [s EXCEPT !.errorSink[c] = @ \cup {[at |-> at, id |-> id, error |-> error]}]

\* The default used whatever the options say
ConfigTimeout_ignoresOption(c) == DefaultTimeout

\* options.timeout ?? 5000 (web), timeout = 5000 (native)
ConfigTimeout(c) ==
    IF timeoutOpt[c] = {} THEN DefaultTimeout
    ELSE CHOOSE t \in timeoutOpt[c] : TRUE

TimeoutMessage(t) == "Request timed out after " \o ToString(t) \o "ms"
NoHandlerMessage(procedure) ==
    "No handler registered for procedure: " \o procedure

\* The entry call n stores in pendingRequests: the closures of its promise
\* and the id of its timer.
PendingEntry(n) == [resolve |-> n, reject |-> n, timeoutId |-> n]

\* An undecodable text, the text "null", and a message of an unknown type.
InvalidJson == [type |-> "#invalid", id |-> 0, name |-> "-", data |-> "absent",
                error |-> NoError]
NullJson == [type |-> "#null", id |-> 0, name |-> "-", data |-> "absent",
             error |-> NoError]
DeserializerThrows(raw) == raw.type = "#invalid"
\* message.type of null throws a TypeError
TypeReadThrows(raw) == raw.type = "#null"

-----------------------------------------------------------------------------
(* packages/web/src/client.ts: createWebClient *)

\* postToNative(message)
Web_postToNative_answersEncodeError(s, message) ==
    IF ~isWebView THEN s
    ELSE IF SerializerThrows(message)
         THEN LET s1 == onError(s, "web", "postToNative", message.id,
                                Error("none", "circular structure"))
              IN  IF message.type = "response" /\ bridge
                  THEN Transmit(s1, "native", defaultSerializer(
                           ErrorResponseMessage(message.id, "circular structure",
                                                "HANDLER_ERROR")))
                  ELSE s1
         ELSE IF ~bridge
              THEN onError(s, "web", "postToNative", message.id, TypeError)
              ELSE Transmit(s, "native", defaultSerializer(message))

\* postToNative looking for the bridge at send time instead of isWebView
Web_postToNative_checksBridge(s, message) ==
    IF ~bridge THEN s
    ELSE IF SerializerThrows(message)
         THEN onError(s, "web", "postToNative", message.id,
                      Error("none", "circular structure"))
         ELSE Transmit(s, "native", defaultSerializer(message))

Web_postToNative(s, message) ==
    IF ~isWebView THEN s
    ELSE IF SerializerThrows(message)
         THEN onError(s, "web", "postToNative", message.id,
                      Error("none", "circular structure"))
         ELSE IF ~bridge    \* window.ReactNativeWebView.postMessage throws
              THEN onError(s, "web", "postToNative", message.id, TypeError)
              ELSE Transmit(s, "native", defaultSerializer(message))

\* handleResponse without clearTimeout(pending.timeoutId)
Web_handleResponse_keepsTimer(s, message) ==
    IF message.id \notin DOMAIN s.pendingRequests["web"] THEN s
    ELSE LET pending == s.pendingRequests["web"][message.id]
             s2 == [s EXCEPT !.pendingRequests["web"] = MapDelete(@, message.id)]
         IN  IF message.error # NoError
             THEN reject(s2, pending.reject, "response",
                         WebViewRPCError(message.error.message, message.error.code))
             ELSE resolve(s2, pending.resolve, "response", message.data)

\* handleResponse taking the first pending entry instead of the one stored
\* under message.id
Web_handleResponse_anyEntry(s, message) ==
    IF DOMAIN s.pendingRequests["web"] = {} THEN s
    ELSE LET id == CHOOSE k \in DOMAIN s.pendingRequests["web"] : TRUE
             pending == s.pendingRequests["web"][id]
             s1 == clearTimeout(s, pending.timeoutId)
             s2 == [s1 EXCEPT !.pendingRequests["web"] = MapDelete(@, id)]
         IN  IF message.error # NoError
             THEN reject(s2, pending.reject, "response",
                         WebViewRPCError(message.error.message, message.error.code))
             ELSE resolve(s2, pending.resolve, "response", message.data)

\* handleResponse(message)
Web_handleResponse(s, message) ==
    IF message.id \notin DOMAIN s.pendingRequests["web"] THEN s
    ELSE LET pending == s.pendingRequests["web"][message.id]
             s1 == clearTimeout(s, pending.timeoutId)
             s2 == [s1 EXCEPT !.pendingRequests["web"] = MapDelete(@, message.id)]
         IN  IF message.error # NoError
             THEN reject(s2, pending.reject, "response",
                         WebViewRPCError(message.error.message, message.error.code))
             ELSE resolve(s2, pending.resolve, "response", message.data)

\* handleEvent(message); throwing is the set of listeners that throw this time
RECURSIVE Web_runListeners(_, _, _, _)
Web_runListeners(s, handlers, message, throwing) ==
    IF handlers = <<>> THEN s
    ELSE LET handler == Head(handlers)
             s0 == [s EXCEPT !.invoked = Append(@, handler)]
             s1 == IF handler \in throwing
                   THEN onError(s0, "web", "handleEvent", message.id,
                                Error("none", "listener failed"))
                   ELSE s0
         IN  Web_runListeners(s1, Tail(handlers), message, throwing)

\* handleEvent acknowledging the event with a response
Web_handleEvent_acks(s, message, throwing) ==
    LET handlers == SetAt(s, s.eventHandlers[message.name])
        s1 == IF Len(handlers) = 0 THEN s
              ELSE Web_runListeners(s, handlers, message, throwing)
    IN  Web_postToNative(s1, ResponseMessage(message.id, "v"))

Web_handleEvent(s, message, throwing) ==
    LET handlers == SetAt(s, s.eventHandlers[message.name])
    IN  IF Len(handlers) = 0 THEN s
        ELSE Web_runListeners(s, handlers, message, throwing)

\* handleRequest(message), up to the await of the handler's result
Web_handleRequest(s, message) ==
    LET handler == s.procedureHandlers[message.name]
    IN  IF handler = "none"
        THEN Web_postToNative(
                 [s EXCEPT !.handled[message.id] = NoHandler],
                 ErrorResponseMessage(message.id, NoHandlerMessage(message.name),
                                      "NO_HANDLER"))
        ELSE [s EXCEPT !.running = @ \cup
                 {[client |-> "web", id |-> message.id, handler |-> handler]}]

\* handleRequest answering without the handler's result (data: undefined)
Web_handleRequestSettled_dropsResult(s, task, outcome) ==
    LET s1 == [s EXCEPT !.running = @ \ {task}, !.handled[task.id] = outcome]
    IN  IF outcome.kind = "return"
        THEN Web_postToNative(s1, ResponseMessage(task.id, "undef"))
        ELSE Web_postToNative(
                 onError(s1, "web", "handleRequest", task.id, outcome.error),
                 ErrorResponseMessage(task.id, outcome.error.message,
                                      "HANDLER_ERROR"))

\* handleRequest answering only while the handler it invoked is registered
Web_handleRequestSettled_ifRegistered(s, task, outcome) ==
    LET s1 == [s EXCEPT !.running = @ \ {task}, !.handled[task.id] = outcome]
    IN  IF \A procedure \in Procedures :
               s.procedureHandlers[procedure] # task.handler
        THEN s1
        ELSE IF outcome.kind = "return"
        THEN Web_postToNative(s1, ResponseMessage(task.id, outcome.value))
        ELSE Web_postToNative(
                 onError(s1, "web", "handleRequest", task.id, outcome.error),
                 ErrorResponseMessage(task.id, outcome.error.message,
                                      "HANDLER_ERROR"))

\* handleRequest(message), from the await on: the handler has settled
Web_handleRequestSettled(s, task, outcome) ==
    LET s1 == [s EXCEPT !.running = @ \ {task}, !.handled[task.id] = outcome]
    IN  IF outcome.kind = "return"
        THEN Web_postToNative(s1, ResponseMessage(task.id, outcome.value))
        ELSE Web_postToNative(
                 onError(s1, "web", "handleRequest", task.id, outcome.error),
                 ErrorResponseMessage(task.id, outcome.error.message,
                                      "HANDLER_ERROR"))

\* handleMessage(event): event.data is raw
Web_handleMessage_reportsUnknown(s, raw, throwing) ==
    IF DeserializerThrows(raw)
    THEN onError(s, "web", "handleMessage", 0, Error("none", "invalid JSON"))
    ELSE IF TypeReadThrows(raw)
    THEN onError(s, "web", "handleMessage", 0, TypeError)
    ELSE LET message == defaultDeserializer(raw)
         IN  CASE message.type = "response" -> Web_handleResponse(s, message)
               [] message.type = "event" -> Web_handleEvent(s, message, throwing)
               [] message.type = "request" -> Web_handleRequest(s, message)
               [] OTHER -> onError(s, "web", "handleMessage", 0,
                                   Error("none", "unknown message type"))

Web_handleMessage(s, raw, throwing) ==
    IF DeserializerThrows(raw)
    THEN onError(s, "web", "handleMessage", 0, Error("none", "invalid JSON"))
    ELSE IF TypeReadThrows(raw)
    THEN onError(s, "web", "handleMessage", 0, TypeError)
    ELSE LET message == defaultDeserializer(raw)
         IN  CASE message.type = "response" -> Web_handleResponse(s, message)
               [] message.type = "event" -> Web_handleEvent(s, message, throwing)
               [] message.type = "request" -> Web_handleRequest(s, message)
               [] OTHER -> s

\* native.call(procedure, data)
Web_call_armsFirst(s, procedure, data) ==
    LET id == generateCorrelationId(s)
        s0 == [s EXCEPT !.nextId = @ + 1,
                        !.calls = @ @@ (id :> NewPromise("web", id))]
        s1 == setTimeout(s0, id)
        s2 == [s1 EXCEPT !.pendingRequests["web"] =
                             MapSet(@, id, PendingEntry(id))]
    IN  IF ~isWebView
        THEN reject(s2, id, "unavailable",
                    WebViewRPCError("Not running in WebView", "NOT_IN_WEBVIEW"))
        ELSE Web_postToNative(s2, RequestMessage(id, procedure, data))

Web_call(s, procedure, data) ==
    LET id == generateCorrelationId(s)
        s0 == [s EXCEPT !.nextId = @ + 1,
                        !.calls = @ @@ (id :> NewPromise("web", id))]
    IN  IF ~isWebView
        THEN reject(s0, id, "unavailable",
                    WebViewRPCError("Not running in WebView", "NOT_IN_WEBVIEW"))
        ELSE LET s1 == setTimeout(s0, id)
                 s2 == [s1 EXCEPT !.pendingRequests["web"] =
                                      MapSet(@, id, PendingEntry(id))]
             IN  Web_postToNative(s2, RequestMessage(id, procedure, data))

\* The timer callback without pendingRequests.delete(id)
Web_timeoutCallback_keepsEntry(s, n) ==
    reject([s EXCEPT !.calls[n].timer = "fired"], n, "timeout",
           WebViewRPCTimeoutError(TimeoutMessage(ConfigTimeout("web")),
                                  ConfigTimeout("web")))

\* The callback of the timer of call n (setTimeout in call)
Web_timeoutCallback(s, n) ==
    LET s1 == [s EXCEPT !.calls[n].timer = "fired",
                        !.pendingRequests["web"] = MapDelete(@, n)]
    IN  reject(s1, n, "timeout",
               WebViewRPCTimeoutError(TimeoutMessage(ConfigTimeout("web")),
                                      ConfigTimeout("web")))

\* native.handle(event, handler)
Web_handleNativeEvent(s, event, handler) ==
    LET s1 == IF s.eventHandlers[event] = 0
              THEN [s EXCEPT !.sets = @ @@ (NewSet(s) :> <<>>),
                             !.eventHandlers[event] = NewSet(s)]
              ELSE s
        handlers == s1.eventHandlers[event]
    IN  [s1 EXCEPT !.sets[handlers] = SetAdd(@, handler),
                   !.unregisters = @ \cup
                       {Unregister("web", handlers, event, handler)}]

\* the unregister function u returned by native.handle(event, handler)
Web_unregisterNativeEvent(s, u) ==
    LET s1 == [s EXCEPT !.sets[u.handlers] = SetDelete(@, u.handler)]
    IN  IF Len(s1.sets[u.handlers]) = 0
        THEN [s1 EXCEPT !.eventHandlers[u.name] = 0]
        ELSE s1

\* web.emit(event, data)
Web_emit(s, event, data) ==
    IF ~isWebView THEN s
    ELSE Web_postToNative([s EXCEPT !.nextId = @ + 1],
                          EventMessage(generateCorrelationId(s), event, data))

\* web.handle(procedure, handler)
Web_handleWebProcedure(s, procedure, handler) ==
    [s EXCEPT !.procedureHandlers[procedure] = handler,
              !.unregisters = @ \cup {Unregister("web", 0, procedure, handler)}]

\* the unregister function returned by web.handle(procedure, handler)
Web_unregisterWebProcedure(s, procedure) ==
    [s EXCEPT !.procedureHandlers[procedure] = "none"]

\* cleanup() rejecting the pending requests without clearTimeout
RECURSIVE Web_rejectAll_keepsTimers(_, _)
Web_rejectAll_keepsTimers(s, ids) ==
    IF ids = {} THEN s
    ELSE LET id == CHOOSE i \in ids : TRUE
             pending == s.pendingRequests["web"][id]
             s2 == reject(s, pending.reject, "cleanup",
                          WebViewRPCError("Client cleanup", "CLEANUP"))
         IN  Web_rejectAll_keepsTimers(s2, ids \ {id})

\* cleanup()
RECURSIVE Web_rejectAll(_, _)
Web_rejectAll(s, ids) ==
    IF ids = {} THEN s
    ELSE LET id == CHOOSE i \in ids : TRUE
             pending == s.pendingRequests["web"][id]
             s1 == clearTimeout(s, pending.timeoutId)
             s2 == reject(s1, pending.reject, "cleanup",
                          WebViewRPCError("Client cleanup", "CLEANUP"))
         IN  Web_rejectAll(s2, ids \ {id})

Web_cleanup(s) ==
    LET s1 == Web_rejectAll(s, DOMAIN s.pendingRequests["web"])
    IN  [s1 EXCEPT !.pendingRequests["web"] = EmptyMap,
                   !.eventHandlers = [n \in Names |-> 0],
                   !.procedureHandlers = [n \in Names |-> "none"],
                   !.listening = FALSE]

-----------------------------------------------------------------------------
(* packages/native/src/client.ts: createNativeClient *)

\* postMessage(message); a thrown exception is left in exc
Native_postMessage(s, message) ==
    IF ~webViewRef
    THEN IF message.type = "event" THEN s
         ELSE IF message.id \notin DOMAIN s.pendingRequests["native"]
              THEN [s EXCEPT !.exc = TypeError]     \* pending is undefined
              ELSE LET pending == s.pendingRequests["native"][message.id]
                       s1 == clearTimeout(s, pending.timeoutId)
                       s2 == [s1 EXCEPT !.pendingRequests["native"] =
                                            MapDelete(@, message.id)]
                   IN  reject(s2, pending.reject, "unavailable",
                              WebViewRPCError("WebView ref is null", "WEBVIEW_NULL"))
    ELSE IF SerializerThrows(message)
         THEN LET error == Error("none", "circular structure")
                  s1 == onError(s, "native", "postMessage", message.id, error)
              IN  IF message.type = "request"
                  THEN IF message.id \notin DOMAIN s1.pendingRequests["native"]
                       THEN [s1 EXCEPT !.exc = TypeError]
                       ELSE LET pending == s1.pendingRequests["native"][message.id]
                                s2 == clearTimeout(s1, pending.timeoutId)
                                s3 == [s2 EXCEPT !.pendingRequests["native"] =
                                                     MapDelete(@, message.id)]
                            IN  reject(s3, pending.reject, "sendfail",
                                       PlainError(error))
                  ELSE s1
         ELSE Transmit(s, "web", defaultSerializer(message))

\* handleResponse without the check for an unknown id: reading
\* pending.timeoutId throws, and handleMessage reports the TypeError
Native_handleResponse_noGuard(s, message) ==
    IF message.id \notin DOMAIN s.pendingRequests["native"]
    THEN onError(s, "native", "handleMessage", message.id, TypeError)
    ELSE LET pending == s.pendingRequests["native"][message.id]
             s1 == clearTimeout(s, pending.timeoutId)
             s2 == [s1 EXCEPT !.pendingRequests["native"] =
                                  MapDelete(@, message.id)]
         IN  IF message.error # NoError
             THEN reject(s2, pending.reject, "response",
                         WebViewRPCError(message.error.message, message.error.code))
             ELSE resolve(s2, pending.resolve, "response", message.data)

\* handleResponse(message)
Native_handleResponse(s, message) ==
    IF message.id \notin DOMAIN s.pendingRequests["native"] THEN s
    ELSE LET pending == s.pendingRequests["native"][message.id]
             s1 == clearTimeout(s, pending.timeoutId)
             s2 == [s1 EXCEPT !.pendingRequests["native"] =
                                  MapDelete(@, message.id)]
         IN  IF message.error # NoError
             THEN reject(s2, pending.reject, "response",
                         WebViewRPCError(message.error.message, message.error.code))
             ELSE resolve(s2, pending.resolve, "response", message.data)

\* An exception that leaves the async handleRequest rejects the promise it
\* returned, which nothing awaits.
Native_asyncEnd(s) ==
    IF s.exc = NoError THEN s
    ELSE [s EXCEPT !.unhandled["native"] = TRUE, !.exc = NoError]

\* handleRequest answering a request without handler with code HANDLER_ERROR
Native_handleRequest_wrongCode(s, message) ==
    LET handlers == SetAt(s, s.nativeHandlers[message.name])
    IN  IF Len(handlers) = 0
        THEN Native_asyncEnd(Native_postMessage(
                 [s EXCEPT !.handled[message.id] = NoHandler],
                 ErrorResponseMessage(message.id, NoHandlerMessage(message.name),
                                      "HANDLER_ERROR")))
        ELSE [s EXCEPT !.running = @ \cup
                 {[client |-> "native", id |-> message.id,
                   handler |-> handlers[1]]}]

\* handleRequest(message), up to the await of the handler's result
Native_handleRequest_oneAtATime(s, message) ==
    LET handlers == SetAt(s, s.nativeHandlers[message.name])
    IN  IF \E task \in s.running : task.client = "native" THEN s
        ELSE IF Len(handlers) = 0
        THEN Native_asyncEnd(Native_postMessage(
                 [s EXCEPT !.handled[message.id] = NoHandler],
                 ErrorResponseMessage(message.id, NoHandlerMessage(message.name),
                                      "NO_HANDLER")))
        ELSE [s EXCEPT !.running = @ \cup
                 {[client |-> "native", id |-> message.id,
                   handler |-> handlers[1]]}]

Native_handleRequest_runsAll(s, message) ==
    LET handlers == SetAt(s, s.nativeHandlers[message.name])
    IN  IF Len(handlers) = 0
        THEN Native_asyncEnd(Native_postMessage(
                 [s EXCEPT !.handled[message.id] = NoHandler],
                 ErrorResponseMessage(message.id, NoHandlerMessage(message.name),
                                      "NO_HANDLER")))
        ELSE [s EXCEPT !.running = @ \cup
                 {[client |-> "native", id |-> message.id, handler |-> h] :
                      h \in Range(handlers)}]

Native_handleRequest(s, message) ==
    LET handlers == SetAt(s, s.nativeHandlers[message.name])
    IN  IF Len(handlers) = 0
        THEN Native_asyncEnd(Native_postMessage(
                 [s EXCEPT !.handled[message.id] = NoHandler],
                 ErrorResponseMessage(message.id, NoHandlerMessage(message.name),
                                      "NO_HANDLER")))
        ELSE [s EXCEPT !.running = @ \cup
                 {[client |-> "native", id |-> message.id,
                   handler |-> handlers[1]]}]

\* the catch block of handleRequest answering with a fixed message
Native_handleRequestCatch_fixedMessage(s, id, error) ==
    LET s1 == Native_postMessage(
                  [s EXCEPT !.exc = NoError],
                  ErrorResponseMessage(id, "Handler failed", "HANDLER_ERROR"))
    IN  IF s1.exc # NoError THEN s1
        ELSE onError(s1, "native", "handleRequest", id, error)

\* the catch block of handleRequest
Native_handleRequestCatch(s, id, error) ==
    LET s1 == Native_postMessage(
                  [s EXCEPT !.exc = NoError],
                  ErrorResponseMessage(id, error.message, "HANDLER_ERROR"))
    IN  IF s1.exc # NoError THEN s1
        ELSE onError(s1, "native", "handleRequest", id, error)

\* handleRequest(message), from the await on: the handler has settled
Native_handleRequestSettled(s, task, outcome) ==
    LET s1 == [s EXCEPT !.running = @ \ {task}, !.handled[task.id] = outcome]
    IN  IF outcome.kind = "return"
        THEN LET s2 == Native_postMessage(
                           s1, ResponseMessage(task.id, outcome.value))
             IN  IF s2.exc = NoError THEN s2
                 ELSE Native_asyncEnd(
                          Native_handleRequestCatch(s2, task.id, s2.exc))
        ELSE Native_asyncEnd(
                 Native_handleRequestCatch(s1, task.id, outcome.error))

\* handleEvent(message); throwing is the set of listeners that throw this time
RECURSIVE Native_runListeners(_, _, _, _)
Native_runListeners_stopsAtThrow(s, handlers, message, throwing) ==
    IF handlers = <<>> THEN s
    ELSE LET handler == Head(handlers)
             s0 == [s EXCEPT !.invoked = Append(@, handler)]
         IN  IF handler \in throwing
             THEN onError(s0, "native", "handleEvent", message.id,
                          Error("none", "listener failed"))
             ELSE Native_runListeners(s0, Tail(handlers), message, throwing)

Native_runListeners(s, handlers, message, throwing) ==
    IF handlers = <<>> THEN s
    ELSE LET handler == Head(handlers)
             s0 == [s EXCEPT !.invoked = Append(@, handler)]
             s1 == IF handler \in throwing
                   THEN onError(s0, "native", "handleEvent", message.id,
                                Error("none", "listener failed"))
                   ELSE s0
         IN  Native_runListeners(s1, Tail(handlers), message, throwing)

Native_handleEvent(s, message, throwing) ==
    LET handlers == SetAt(s, s.nativeHandlers[message.name])
    IN  IF Len(handlers) = 0 THEN s
        ELSE Native_runListeners(s, handlers, message, throwing)

\* handleMessage(event): event.nativeEvent.data is raw
Native_handleMessage_swallows(s, raw, throwing) ==
    IF DeserializerThrows(raw) \/ TypeReadThrows(raw) THEN s
    ELSE LET message == defaultDeserializer(raw)
         IN  CASE message.type = "response" -> Native_handleResponse(s, message)
               [] message.type = "request" -> Native_handleRequest(s, message)
               [] message.type = "event" -> Native_handleEvent(s, message, throwing)
               [] OTHER -> s

Native_handleMessage(s, raw, throwing) ==
    IF DeserializerThrows(raw)
    THEN onError(s, "native", "handleMessage", 0, Error("none", "invalid JSON"))
    ELSE IF TypeReadThrows(raw)
    THEN onError(s, "native", "handleMessage", 0, TypeError)
    ELSE LET message == defaultDeserializer(raw)
         IN  CASE message.type = "response" -> Native_handleResponse(s, message)
               [] message.type = "request" -> Native_handleRequest(s, message)
               [] message.type = "event" -> Native_handleEvent(s, message, throwing)
               [] OTHER -> s

\* web.call(procedure, data)
Native_callWeb(s, procedure, data) ==
    LET id == generateCorrelationId(s)
        s0 == [s EXCEPT !.nextId = @ + 1,
                        !.calls = @ @@ (id :> NewPromise("native", id))]
        s1 == setTimeout(s0, id)
        s2 == [s1 EXCEPT !.pendingRequests["native"] =
                             MapSet(@, id, PendingEntry(id))]
    IN  Native_postMessage(s2, RequestMessage(id, procedure, data))

\* The callback of the timer of call n (setTimeout in callWeb)
Native_timeoutCallback(s, n) ==
    LET s1 == [s EXCEPT !.calls[n].timer = "fired",
                        !.pendingRequests["native"] = MapDelete(@, n)]
    IN  reject(s1, n, "timeout",
               WebViewRPCTimeoutError(TimeoutMessage(ConfigTimeout("native")),
                                      ConfigTimeout("native")))

\* web.emit(event, data)
Native_emitWeb(s, event, data) ==
    Native_postMessage([s EXCEPT !.nextId = @ + 1],
                       EventMessage(generateCorrelationId(s), event, data))

\* native.emit(event, data)
Native_emitNative(s, event, data) ==
    Native_postMessage([s EXCEPT !.nextId = @ + 1],
                       EventMessage(generateCorrelationId(s), event, data))

\* web.handle(name, handler)
Native_registerWebHandler(s, name, handler) ==
    LET s1 == IF s.nativeHandlers[name] = 0
              THEN [s EXCEPT !.sets = @ @@ (NewSet(s) :> <<>>),
                             !.nativeHandlers[name] = NewSet(s)]
              ELSE s
        handlers == s1.nativeHandlers[name]
    IN  [s1 EXCEPT !.sets[handlers] = SetAdd(@, handler),
                   !.unregisters = @ \cup
                       {Unregister("native", handlers, name, handler)}]

\* native.handle(name, handler)
Native_registerNativeHandler(s, name, handler) ==
    LET s1 == IF s.nativeHandlers[name] = 0
              THEN [s EXCEPT !.sets = @ @@ (NewSet(s) :> <<>>),
                             !.nativeHandlers[name] = NewSet(s)]
              ELSE s
        handlers == s1.nativeHandlers[name]
    IN  [s1 EXCEPT !.sets[handlers] = SetAdd(@, handler),
                   !.unregisters = @ \cup
                       {Unregister("native", handlers, name, handler)}]

\* the unsubscribe function u returned by web.handle / native.handle
Native_unsubscribe(s, u) ==
    LET s1 == [s EXCEPT !.sets[u.handlers] = SetDelete(@, u.handler)]
    IN  IF Len(s1.sets[u.handlers]) = 0
        THEN [s1 EXCEPT !.nativeHandlers[u.name] = 0]
        ELSE s1

\* cleanup() clearing the timers without rejecting the promises
RECURSIVE Native_rejectAll_onlyClears(_, _)
Native_rejectAll_onlyClears(s, ids) ==
    IF ids = {} THEN s
    ELSE LET id == CHOOSE i \in ids : TRUE
             pending == s.pendingRequests["native"][id]
         IN  Native_rejectAll_onlyClears(clearTimeout(s, pending.timeoutId),
                                         ids \ {id})

\* cleanup()
RECURSIVE Native_rejectAll(_, _)
Native_rejectAll(s, ids) ==
    IF ids = {} THEN s
    ELSE LET id == CHOOSE i \in ids : TRUE
             pending == s.pendingRequests["native"][id]
             s1 == clearTimeout(s, pending.timeoutId)
             s2 == reject(s1, pending.reject, "cleanup",
                          PlainError(Error("none", "Client cleanup called")))
         IN  Native_rejectAll(s2, ids \ {id})

\* cleanup() without pendingRequests.clear()
Native_cleanup_keepsEntries(s) ==
    LET s1 == Native_rejectAll(s, DOMAIN s.pendingRequests["native"])
    IN  [s1 EXCEPT !.nativeHandlers = [n \in Names |-> 0]]

Native_cleanup(s) ==
    LET s1 == Native_rejectAll(s, DOMAIN s.pendingRequests["native"])
    IN  [s1 EXCEPT !.pendingRequests["native"] = EmptyMap,
                   !.nativeHandlers = [n \in Names |-> 0]]

-----------------------------------------------------------------------------
(* packages/web/src/hooks.ts, packages/native/src/hooks.ts *)

\* The hooks of a component that was not rendered yet: useState(false),
\* useState(null), useState(null) of useProcedure; no handler given to
\* useEvent, nothing registered.  awaiting holds the calls at which an
\* invocation of mutate is suspended.
NoHooks ==
    [isPending |-> FALSE, error |-> "null", data |-> "null", awaiting |-> {},
     handler |-> "none", handlerRef |-> "none", stableHandler |-> "none"]

\* useProcedure: mutate(callData), up to the await of sideApi.call
useProcedure_mutate(s, procedure, callData) ==
    LET s1 == [s EXCEPT !.hooks.isPending = TRUE, !.hooks.error = "null"]
        s2 == Web_call(s1, procedure, callData)
    IN  [s2 EXCEPT !.hooks.awaiting = @ \cup {generateCorrelationId(s)}]

\* useProcedure: mutate, from the await on: the promise of call n is settled
useProcedure_mutateSettled(s, n) ==
    LET s1 == IF s.calls[n].state = "resolved"
              THEN [s EXCEPT !.hooks.data = s.calls[n].value]
              ELSE [s EXCEPT !.hooks.error = s.calls[n].error.code]
    IN  [s1 EXCEPT !.hooks.isPending = FALSE, !.hooks.awaiting = @ \ {n}]

\* useProcedure: reset()
useProcedure_reset(s) ==
    [s EXCEPT !.hooks.isPending = FALSE, !.hooks.error = "null",
              !.hooks.data = "null"]

\* The function useEvent registers: stableHandler, which calls
\* handlerRef.current.
StableHandler == "stableHandler"

\* useEvent(..., handler): a render of the component.  The first render
\* creates the ref with the handler, a later one leaves the ref to the effect.
useEvent_render(s, handler) ==
    [s EXCEPT !.hooks.handler = handler,
              !.hooks.handlerRef = IF s.hooks.handler = "none" THEN handler
                                   ELSE @]

\* The effects of the last render, on client c: handlerRef.current = handler,
\* and on the first render the registration of stableHandler.
useEvent_effects(s, c, event) ==
    LET s1 == [s EXCEPT !.hooks.handlerRef = s.hooks.handler]
    IN  IF s.hooks.stableHandler # "none" THEN s1
        ELSE LET s2 == IF c = "web"
                       THEN Web_handleNativeEvent(s1, event, StableHandler)
                       ELSE Native_registerWebHandler(s1, event, StableHandler)
             IN  [s2 EXCEPT !.hooks.stableHandler = StableHandler]

\* The cleanup of the registration effect, when the component unmounts:
\* the unregister function the registration returned
useEvent_unmount(s, c) ==
    LET mine == {u \in s.unregisters :
                     u.client = c /\ u.handler = StableHandler}
        s1 == IF mine = {} THEN s
              ELSE LET u == CHOOSE u \in mine : TRUE
                   IN  [(IF c = "web" THEN Web_unregisterNativeEvent(s, u)
                         ELSE Native_unsubscribe(s, u))
                            EXCEPT !.unregisters = @ \ {u}]
    IN  [s1 EXCEPT !.hooks.handler = "none", !.hooks.handlerRef = "none",
                   !.hooks.stableHandler = "none"]

-----------------------------------------------------------------------------
(* The state machine *)

Init ==
    /\ caller \in Clients
    /\ bridge \in BOOLEAN
    /\ isWebView = bridge
    /\ webViewRef \in BOOLEAN
    /\ listening = TRUE
    /\ timeoutOpt \in {[web |-> {}, native |-> {CustomTimeout}],
                       [web |-> {CustomTimeout}, native |-> {}]}
    /\ nextId = 1
    /\ calls = <<>>
    /\ pendingRequests = [c \in Clients |-> EmptyMap]
    /\ procedureHandlers = [n \in Names |-> "none"]
    /\ eventHandlers = [n \in Names |-> 0]
    /\ nativeHandlers = [n \in Names |-> 0]
    /\ sets = <<>>
    /\ unregisters = {}
    /\ invoked = <<>>
    /\ cleaned = [c \in Clients |-> FALSE]
    /\ running = {}
    /\ chan = [c \in Clients |-> EmptyBag]
    /\ errorSink = [c \in Clients |-> {}]
    /\ unhandled = [c \in Clients |-> FALSE]
    /\ handled = [i \in Ids |-> NotHandled]
    /\ hooks = NoHooks

\* A step to state s.
Step(s) == Assign(s)

\* client.native.call(procedure, data) on the web client
WebCall ==
    /\ caller = "web"
    /\ nextId <= MaxIds
    /\ \E procedure \in Procedures, data \in CallData :
           Step(Web_call(S, procedure, data))

\* client.web.call(procedure, data) on the native client
NativeCall ==
    /\ caller = "native"
    /\ nextId <= MaxIds
    /\ \E procedure \in Procedures, data \in CallData :
           Step(Native_callWeb(S, procedure, data))

\* The timer of call n fires.
WebTimerFires(n) ==
    /\ n \in DOMAIN calls
    /\ calls[n].owner = "web"
    /\ calls[n].timer = "armed"
    /\ Step(Web_timeoutCallback(S, n))

NativeTimerFires(n) ==
    /\ n \in DOMAIN calls
    /\ calls[n].owner = "native"
    /\ calls[n].timer = "armed"
    /\ Step(Native_timeoutCallback(S, n))

WebTimeout == \E n \in Ids : WebTimerFires(n)

NativeTimeout == \E n \in Ids : NativeTimerFires(n)

\* The bridge delivers a message to the web page: a 'message' event on window.
WebDelivers(raw, throwing) ==
    /\ raw \in BagToSet(chan["web"])
    /\ LET s == [S EXCEPT !.chan["web"] = @ (-) SetToBag({raw})]
       IN  IF listening THEN Step(Web_handleMessage(s, raw, throwing))
           ELSE Step(s)

WebDeliver ==
    \E raw \in BagToSet(chan["web"]), throwing \in SUBSET Handlers :
        WebDelivers(raw, throwing)

\* The bridge delivers a message to the native side: WebView onMessage.
NativeDelivers(raw, throwing) ==
    /\ raw \in BagToSet(chan["native"])
    /\ LET s == [S EXCEPT !.chan["native"] = @ (-) SetToBag({raw})]
       IN  Step(Native_handleMessage(s, raw, throwing))

NativeDeliver ==
    \E raw \in BagToSet(chan["native"]), throwing \in SUBSET Handlers :
        NativeDelivers(raw, throwing)

\* A suspended request handler settles.
WebHandlerSettles ==
    \E task \in running, outcome \in Outcomes :
        /\ task.client = "web"
        /\ Step(Web_handleRequestSettled(S, task, outcome))

NativeHandlerSettles ==
    \E task \in running, outcome \in Outcomes :
        /\ task.client = "native"
        /\ Step(Native_handleRequestSettled(S, task, outcome))

\* Registration and unregistration of handlers and listeners
\* The application calls an unregister function once, and drops it.
Called(s, u) == [s EXCEPT !.unregisters = @ \ {u}]

\* A registration that needs a new Set finds an object for it.
CanRegister(handlers) == handlers # 0 \/ SetIds \ DOMAIN sets # {}

WebHandleProcedure ==
    /\ caller = "native"
    /\ \E procedure \in Procedures, handler \in Handlers :
        /\ procedureHandlers[procedure] # handler
        /\ Step(Web_handleWebProcedure(S, procedure, handler))

WebUnregisters(u) ==
    /\ u \in unregisters
    /\ u.client = "web"
    /\ u.name \in Procedures
    /\ Step(Called(Web_unregisterWebProcedure(S, u.name), u))

WebUnregisterProcedure ==
    /\ caller = "native"
    /\ \E u \in unregisters : WebUnregisters(u)

NativeRegisterWebHandler ==
    /\ caller = "web"
    /\ \E name \in Procedures, handler \in Handlers :
        /\ handler \notin Range(SetAt(S, nativeHandlers[name]))
        /\ CanRegister(nativeHandlers[name])
        /\ Step(Native_registerWebHandler(S, name, handler))

NativeRegisterNativeHandler ==
    /\ caller = "web"
    /\ \E name \in Procedures, handler \in Handlers :
        /\ handler \notin Range(SetAt(S, nativeHandlers[name]))
        /\ CanRegister(nativeHandlers[name])
        /\ Step(Native_registerNativeHandler(S, name, handler))

NativeUnsubscribes(u) ==
    /\ u \in unregisters
    /\ u.client = "native"
    /\ Step(Called(Native_unsubscribe(S, u), u))

NativeUnsubscribe ==
    /\ caller = "web"
    /\ \E u \in unregisters : NativeUnsubscribes(u)

\* The application drops the unregister functions of client c it holds.
Dropped(s, c) == [s EXCEPT !.unregisters = {u \in @ : u.client # c}]

\* client.cleanup(), by an application that drops the client's unregister
\* functions with it
WebCleanup ==
    /\ caller \in Clients
    /\ Step(Dropped(Web_cleanup(S), "web"))

NativeCleanup ==
    /\ caller \in Clients
    /\ Step(Dropped(Native_cleanup(S), "native"))

\* The WebView mounts or unmounts: webViewRef.current changes.
SetWebViewRef ==
    /\ webViewRef' = ~webViewRef
    /\ errorSink' = [c \in Clients |-> {}]
    /\ unhandled' = [c \in Clients |-> FALSE]
    /\ UNCHANGED <<caller, isWebView, bridge, listening, timeoutOpt, nextId,
                   calls, pendingRequests, procedureHandlers, eventHandlers,
                   nativeHandlers, sets, unregisters, running, chan, cleaned,
                   handled, hooks>>
    /\ invoked' = <<>>

\* The page gains or loses window.ReactNativeWebView.
SetBridge ==
    /\ bridge' = ~bridge
    /\ errorSink' = [c \in Clients |-> {}]
    /\ unhandled' = [c \in Clients |-> FALSE]
    /\ UNCHANGED <<caller, isWebView, webViewRef, listening, timeoutOpt, nextId,
                   calls, pendingRequests, procedureHandlers, eventHandlers,
                   nativeHandlers, sets, unregisters, running, chan, cleaned,
                   handled, hooks>>
    /\ invoked' = <<>>

Next ==
    \/ WebCall \/ NativeCall
    \/ WebTimeout \/ NativeTimeout
    \/ WebDeliver \/ NativeDeliver
    \/ WebHandlerSettles \/ NativeHandlerSettles
    \/ WebHandleProcedure \/ WebUnregisterProcedure
    \/ NativeRegisterWebHandler \/ NativeRegisterNativeHandler
    \/ NativeUnsubscribe
    \/ WebCleanup \/ NativeCleanup
    \/ SetWebViewRef \/ SetBridge

Spec == Init /\ [][Next]_vars

-----------------------------------------------------------------------------
(* A calling client on its own: its peer is any sender of responses *)

\* The responses a peer can send, as they arrive: with data or with an error,
\* for any id.
AnyResponses ==
    {defaultSerializer(ResponseMessage(id, data)) :
         id \in Ids, data \in {"v", "date"}}
    \cup {defaultSerializer(ErrorResponseMessage(id, "boom", code)) :
             id \in Ids, code \in {"HANDLER_ERROR", "NO_HANDLER"}}

WebResponseArrives(raw) ==
    /\ listening
    /\ Step(Web_handleMessage(S, raw, {}))

NativeResponseArrives(raw) ==
    /\ caller \in Clients
    /\ Step(Native_handleMessage(S, raw, {}))

WebReceivesResponse == \E raw \in AnyResponses : WebResponseArrives(raw)

NativeReceivesResponse == \E raw \in AnyResponses : NativeResponseArrives(raw)

CallerNext ==
    \/ WebCall \/ NativeCall
    \/ WebTimeout \/ NativeTimeout
    \/ WebReceivesResponse \/ NativeReceivesResponse
    \/ WebCleanup \/ NativeCleanup
    \/ SetWebViewRef \/ SetBridge

CallerSpec == Init /\ [][CallerNext]_vars

\* An armed timer fires eventually.
CallerLiveSpec ==
    /\ CallerSpec
    /\ \A n \in Ids : WF_vars(WebTimerFires(n)) /\ WF_vars(NativeTimerFires(n))

-----------------------------------------------------------------------------
(* A sending client on its own: calls and emits, with any responses        *)

\* client.web.emit(event, data) on the web client
WebEmit ==
    /\ caller = "web"
    /\ nextId <= MaxIds
    /\ \E event \in Events, data \in CallData : Step(Web_emit(S, event, data))

\* client.web.emit(event, data) on the native client
NativeEmitWeb ==
    /\ caller = "native"
    /\ nextId <= MaxIds
    /\ \E event \in Events, data \in CallData :
           Step(Native_emitWeb(S, event, data))

\* client.native.emit(event, data) on the native client
NativeEmitNative ==
    /\ caller = "native"
    /\ nextId <= MaxIds
    /\ \E event \in Events, data \in CallData :
           Step(Native_emitNative(S, event, data))

OutboundNext ==
    \/ WebCall \/ NativeCall
    \/ WebEmit \/ NativeEmitWeb \/ NativeEmitNative
    \/ WebTimeout \/ NativeTimeout
    \/ WebReceivesResponse \/ NativeReceivesResponse
    \/ WebCleanup \/ NativeCleanup
    \/ SetWebViewRef \/ SetBridge

OutboundSpec == Init /\ [][OutboundNext]_vars

-----------------------------------------------------------------------------
(* A serving client on its own: its peer is any sender of requests and of  *)
(* messages that are no request, response or event; the client has calls   *)
(* of its own under way                                                    *)

\* The requests a peer can send, as they arrive.
AnyRequests ==
    {defaultSerializer(RequestMessage(id, procedure, "v")) :
         id \in Ids, procedure \in Procedures}

\* Valid JSON for an object whose type is none of the three.
UnknownType == [type |-> "ping", id |-> 0, name |-> "-", data |-> "absent",
                error |-> NoError]

Strays == {InvalidJson, NullJson, UnknownType}

\* What a handler can do: Outcomes, and also return undefined or throw an
\* error that carries a code: one of its own, or the TIMEOUT of a call the
\* handler made itself.
DomainOutcomes ==
    Outcomes
    \cup [kind : {"return"}, value : {"undef"}, error : {NoError}]
    \cup [kind : {"throw"}, value : {"undef"},
          error : {Error("FORBIDDEN", "denied"),
                   Error("TIMEOUT", "Request timed out after 5000ms")}]

\* Ids are generated independently on the two sides and do not collide: an
\* id is used by one request only.
Fresh(id) ==
    /\ handled[id] = NotHandled
    /\ id \notin DOMAIN calls
    /\ \A task \in running : task.id # id

WebRequestArrives(raw) ==
    /\ caller = "native"
    /\ listening
    /\ Fresh(raw.id)
    /\ Step(Web_handleMessage(S, raw, {}))

NativeRequestArrives(raw) ==
    /\ caller = "web"
    /\ Fresh(raw.id)
    /\ Step(Native_handleMessage(S, raw, {}))

WebReceivesRequest == \E raw \in AnyRequests : WebRequestArrives(raw)

NativeReceivesRequest == \E raw \in AnyRequests : NativeRequestArrives(raw)

WebStrayArrives(raw) ==
    /\ caller = "native"
    /\ listening
    /\ Step(Web_handleMessage(S, raw, {}))

NativeStrayArrives(raw) ==
    /\ caller = "web"
    /\ Step(Native_handleMessage(S, raw, {}))

WebReceivesStray == \E raw \in Strays : WebStrayArrives(raw)

NativeReceivesStray == \E raw \in Strays : NativeStrayArrives(raw)

WebHandlerEnds(task, outcome) ==
    /\ task \in running
    /\ task.client = "web"
    /\ Step(Web_handleRequestSettled(S, task, outcome))

NativeHandlerEnds(task, outcome) ==
    /\ task \in running
    /\ task.client = "native"
    /\ Step(Native_handleRequestSettled(S, task, outcome))

WebHandlerEnd ==
    \E task \in running, outcome \in DomainOutcomes :
        WebHandlerEnds(task, outcome)

NativeHandlerEnd ==
    \E task \in running, outcome \in DomainOutcomes :
        NativeHandlerEnds(task, outcome)

\* client.native.call(procedure, data) by the serving web client
WebCallsBack ==
    /\ caller = "native"
    /\ nextId <= MaxIds
    /\ Fresh(nextId)
    /\ \E procedure \in Procedures, data \in CallData :
           Step(Web_call(S, procedure, data))

\* client.web.call(procedure, data) by the serving native client
NativeCallsBack ==
    /\ caller = "web"
    /\ nextId <= MaxIds
    /\ Fresh(nextId)
    /\ \E procedure \in Procedures, data \in CallData :
           Step(Native_callWeb(S, procedure, data))

ReceiverNext ==
    \/ WebReceivesRequest \/ NativeReceivesRequest
    \/ WebReceivesStray \/ NativeReceivesStray
    \/ WebHandlerEnd \/ NativeHandlerEnd
    \/ WebCallsBack \/ NativeCallsBack
    \/ WebHandleProcedure \/ WebUnregisterProcedure
    \/ NativeRegisterWebHandler \/ NativeRegisterNativeHandler
    \/ NativeUnsubscribe
    \/ SetWebViewRef \/ SetBridge

ReceiverSpec == Init /\ [][ReceiverNext]_vars

-----------------------------------------------------------------------------
(* A listening client on its own: its peer is any sender of events, and the *)
(* application keeps the unregister functions it was given                 *)

\* The events a peer can send, as they arrive.
AnyEvents ==
    {defaultSerializer(EventMessage(id, event, "v")) : id \in Ids, event \in Events}

\* A 'message' event on window reaches handleMessage while it is attached.
WebEventArrives(raw, throwing) ==
    /\ caller = "native"
    /\ Step(IF listening THEN Web_handleMessage(S, raw, throwing) ELSE S)

NativeEventArrives(raw, throwing) ==
    /\ caller = "web"
    /\ Step(Native_handleMessage(S, raw, throwing))

WebReceivesEvent ==
    \E raw \in AnyEvents, throwing \in SUBSET Handlers :
        WebEventArrives(raw, throwing)

NativeReceivesEvent ==
    \E raw \in AnyEvents, throwing \in SUBSET Handlers :
        NativeEventArrives(raw, throwing)

\* client.native.handle(event, handler) on the web client
WebHandleNativeEvent ==
    /\ caller = "native"
    /\ \E event \in Events, handler \in Handlers :
        /\ CanRegister(eventHandlers[event])
        /\ Step(Web_handleNativeEvent(S, event, handler))

WebUnregistersListener(u) ==
    /\ u \in unregisters
    /\ u.client = "web"
    /\ u.name \in Events
    /\ Step(Called(Web_unregisterNativeEvent(S, u), u))

WebUnregisterNativeEvent ==
    /\ caller = "native"
    /\ \E u \in unregisters : WebUnregistersListener(u)

\* client.web.handle(event, handler) on the native client
NativeHandleEvent ==
    /\ caller = "web"
    /\ \E event \in Events, handler \in Handlers :
        /\ CanRegister(nativeHandlers[event])
        /\ Step(Native_registerWebHandler(S, event, handler))

\* client.cleanup(), by an application that keeps the unregister functions
Torn(s, c) == [s EXCEPT !.cleaned[c] = TRUE]

WebTeardown ==
    /\ caller = "native"
    /\ Step(Torn(Web_cleanup(S), "web"))

NativeTeardown ==
    /\ caller = "web"
    /\ Step(Torn(Native_cleanup(S), "native"))

ListenerNext ==
    \/ WebReceivesEvent \/ NativeReceivesEvent
    \/ WebHandleNativeEvent \/ WebUnregisterNativeEvent
    \/ NativeHandleEvent \/ NativeUnsubscribe
    \/ WebTeardown \/ NativeTeardown

ListenerSpec == Init /\ [][ListenerNext]_vars

-----------------------------------------------------------------------------
(* A listening client that has calls of its own under way                  *)

NotifyNext ==
    \/ WebReceivesEvent \/ NativeReceivesEvent
    \/ WebHandleNativeEvent \/ WebUnregisterNativeEvent
    \/ NativeHandleEvent \/ NativeUnsubscribe
    \/ WebCallsBack \/ NativeCallsBack

NotifySpec == Init /\ [][NotifyNext]_vars

-----------------------------------------------------------------------------
(* The two clients as a codec: one hands messages of every kind to its     *)
(* channel, the other decodes what arrives                                 *)

\* The messages a client can build, with every kind of payload.
Messages ==
    {RequestMessage(id, name, data) :
         id \in Ids, name \in Procedures, data \in Payloads}
    \cup {ResponseMessage(id, data) : id \in Ids, data \in Payloads}
    \cup {ErrorResponseMessage(id, "boom", "HANDLER_ERROR") : id \in Ids}
    \cup {EventMessage(id, name, data) :
              id \in Ids, name \in Events, data \in Payloads}

\* postToNative(message) on a web client whose channel is open
WebPosts(message) ==
    /\ caller = "web"
    /\ isWebView /\ bridge
    /\ BagCardinality(chan["native"]) < MaxInFlight
    /\ Step(Web_postToNative(S, message))

\* postMessage(message) on a native client whose WebView is mounted
NativePosts(message) ==
    /\ caller = "native"
    /\ webViewRef
    /\ BagCardinality(chan["web"]) < MaxInFlight
    /\ Step(Native_postMessage(S, message))

WebPost == \E message \in Messages : WebPosts(message)

NativePost == \E message \in Messages : NativePosts(message)

\* The peer decodes and dispatches a message; what it answers stays within
\* the bound.
PeerDecodes ==
    /\ BagCardinality(chan[caller]) < MaxInFlight
    /\ IF caller = "web" THEN NativeDeliver ELSE WebDeliver

\* The sender decodes and dispatches an answer of the peer.
SenderDecodes == IF caller = "web" THEN WebDeliver ELSE NativeDeliver

CodecNext ==
    \/ WebPost \/ NativePost
    \/ PeerDecodes \/ SenderDecodes

CodecSpec == Init /\ [][CodecNext]_vars

-----------------------------------------------------------------------------
(* The two clients side by side: each local operation is made on both, and *)
(* each inbound message reaches both, with both channels available.  Ids   *)
(* are generated in pairs: the web client's call or emit takes the odd id, *)
(* the native client's the even one that follows.                          *)

\* Both clients are created with the same options, in a WebView that is
\* mounted.
LockstepInit ==
    /\ caller = "web"
    /\ bridge = TRUE
    /\ isWebView = bridge
    /\ webViewRef = TRUE
    /\ listening = TRUE
    /\ timeoutOpt \in {[c \in Clients |-> {}], [c \in Clients |-> {CustomTimeout}]}
    /\ nextId = 1
    /\ calls = <<>>
    /\ pendingRequests = [c \in Clients |-> EmptyMap]
    /\ procedureHandlers = [n \in Names |-> "none"]
    /\ eventHandlers = [n \in Names |-> 0]
    /\ nativeHandlers = [n \in Names |-> 0]
    /\ sets = <<>>
    /\ unregisters = {}
    /\ invoked = <<>>
    /\ cleaned = [c \in Clients |-> FALSE]
    /\ running = {}
    /\ chan = [c \in Clients |-> EmptyBag]
    /\ errorSink = [c \in Clients |-> {}]
    /\ unhandled = [c \in Clients |-> FALSE]
    /\ handled = [i \in Ids |-> NotHandled]
    /\ hooks = NoHooks

\* The id the native client generates for the operation for which the web
\* client generated id.
Twin(id) == id + 1

\* client.native.call / client.web.call, with the same arguments
BothCall ==
    /\ nextId + 1 <= MaxIds
    /\ \E procedure \in Procedures, data \in CallData :
           Step(Native_callWeb(Web_call(S, procedure, data), procedure, data))

\* client.web.emit, with the same arguments
BothEmit ==
    /\ nextId + 1 <= MaxIds
    /\ \E event \in Events, data \in CallData :
           Step(Native_emitWeb(Web_emit(S, event, data), event, data))

\* The timers of the twin calls fire.
BothTimeout ==
    \E n \in Ids :
        /\ n \in DOMAIN calls /\ Twin(n) \in DOMAIN calls
        /\ calls[n].owner = "web"
        /\ calls[n].timer = "armed" \/ calls[Twin(n)].timer = "armed"
        /\ LET s1 == IF calls[n].timer = "armed"
                     THEN Web_timeoutCallback(S, n) ELSE S
           IN  Step(IF calls[Twin(n)].timer = "armed"
                    THEN Native_timeoutCallback(s1, Twin(n)) ELSE s1)

\* What the web client does with an inbound text: nothing once cleanup() has
\* detached handleMessage.
Web_onMessage(s, raw, throwing) ==
    IF s.listening THEN Web_handleMessage(s, raw, throwing) ELSE s

\* The same response reaches both, each under the id of its own call.
BothReceiveResponse ==
    \E raw \in AnyResponses :
        /\ raw.id \in DOMAIN calls /\ Twin(raw.id) \in DOMAIN calls
        /\ calls[raw.id].owner = "web"
        /\ Step(Native_handleMessage(Web_onMessage(S, raw, {}),
                                     [raw EXCEPT !.id = Twin(@)], {}))

\* The same request reaches both.
BothReceiveRequest ==
    \E raw \in AnyRequests :
        /\ raw.id = 1
        /\ handled[raw.id] = NotHandled
        /\ \A task \in running : task.id # raw.id
        /\ Step(Native_handleMessage(Web_onMessage(S, raw, {}), raw, {}))

\* The same event reaches both.
BothReceiveEvent ==
    \E raw \in AnyEvents, throwing \in {{}, Handlers} :
        /\ raw.name \in Events
        /\ Step(Native_handleMessage(Web_onMessage(S, raw, throwing),
                                     raw, throwing))

\* The handlers invoked for a request end in the same way on both.
BothHandlerEnd ==
    \E id \in Ids, outcome \in Outcomes :
        /\ \E task \in running : task.id = id
        /\ LET web == {task \in running : task.id = id /\ task.client = "web"}
               native == {task \in running :
                              task.id = id /\ task.client = "native"}
               s1 == IF web = {} THEN S
                     ELSE Web_handleRequestSettled(
                              S, CHOOSE task \in web : TRUE, outcome)
           IN  Step(IF native = {} THEN s1
                    ELSE Native_handleRequestSettled(
                             s1, CHOOSE task \in native : TRUE, outcome))

\* A request handler is registered on both: client.web.handle on the web
\* client, client.native.handle on the native client.
BothHandleProcedure ==
    \E procedure \in Procedures, handler \in Handlers :
        /\ procedureHandlers[procedure] # handler
        /\ CanRegister(nativeHandlers[procedure])
        /\ Step(Native_registerNativeHandler(
                    Web_handleWebProcedure(S, procedure, handler),
                    procedure, handler))

\* An event listener is registered on both: client.native.handle on the web
\* client, client.web.handle on the native client.
BothHandleEvent ==
    \E event \in Events, handler \in {"h1"} :
        /\ handler \notin Range(SetAt(S, eventHandlers[event]))
        /\ Cardinality(SetIds \ DOMAIN sets) >= 2
               \/ (eventHandlers[event] # 0 /\ nativeHandlers[event] # 0)
        /\ Step(Native_registerWebHandler(
                    Web_handleNativeEvent(S, event, handler), event, handler))

\* The unregister functions returned for one registration are called on both.
BothUnregister ==
    \E u \in unregisters, v \in unregisters :
        /\ u.client = "web" /\ v.client = "native"
        /\ u.name = v.name /\ u.handler = v.handler
        /\ LET s1 == IF u.name \in Procedures
                     THEN Web_unregisterWebProcedure(S, u.name)
                     ELSE Web_unregisterNativeEvent(S, u)
           IN  Step(Called(Called(Native_unsubscribe(s1, v), v), u))

\* client.cleanup() on both
BothCleanup ==
    /\ listening
    /\ Step(Dropped(Native_cleanup(Dropped(Web_cleanup(S), "web")), "native"))

LockstepNext ==
    \/ BothCall \/ BothEmit \/ BothTimeout
    \/ BothReceiveResponse \/ BothReceiveRequest \/ BothReceiveEvent
    \/ BothHandlerEnd
    \/ BothHandleProcedure \/ BothHandleEvent \/ BothUnregister
    \/ BothCleanup

LockstepSpec == LockstepInit /\ [][LockstepNext]_vars

-----------------------------------------------------------------------------
(* A component of the web page that calls a procedure through useProcedure *)

Mutate ==
    /\ caller = "web"
    /\ nextId <= MaxIds
    /\ \E procedure \in Procedures, callData \in CallData :
           Step(useProcedure_mutate(S, procedure, callData))

\* The continuation of mutate runs once the promise it awaits is settled.
MutateSettles(n) ==
    /\ n \in hooks.awaiting
    /\ calls[n].state # "pending"
    /\ Step(useProcedure_mutateSettled(S, n))

MutateSettled == \E n \in Ids : MutateSettles(n)

Reset ==
    /\ caller = "web"
    /\ hooks.isPending \/ hooks.error # "null" \/ hooks.data # "null"
    /\ Step(useProcedure_reset(S))

ProcedureHookNext ==
    \/ Mutate \/ MutateSettled \/ Reset
    \/ WebTimeout
    \/ WebReceivesResponse
    \/ SetBridge

ProcedureHookSpec == Init /\ [][ProcedureHookNext]_vars

-----------------------------------------------------------------------------
(* A component that listens with useEvent, next to listeners registered    *)
(* directly                                                                *)

\* The component renders, with the same handler or another one.
UseEventRender ==
    \E handler \in Handlers :
        /\ hooks.handler # handler
        /\ Step(useEvent_render(S, handler))

\* The effects of the last render are pending.
EffectsPending ==
    /\ hooks.handler # "none"
    /\ hooks.handlerRef # hooks.handler \/ hooks.stableHandler = "none"

UseEventEffects ==
    /\ EffectsPending
    /\ \E event \in Events :
        /\ CanRegister(IF caller = "native" THEN eventHandlers[event]
                       ELSE nativeHandlers[event])
        /\ Step(useEvent_effects(S, Peer(caller), event))

UseEventUnmount ==
    /\ hooks.handler # "none"
    /\ Step(useEvent_unmount(S, Peer(caller)))

EventHookNext ==
    \/ UseEventRender \/ UseEventEffects \/ UseEventUnmount
    \/ WebReceivesEvent \/ NativeReceivesEvent
    \/ WebHandleNativeEvent \/ NativeHandleEvent

EventHookSpec == Init /\ [][EventHookNext]_vars

-----------------------------------------------------------------------------
(* A listening client whose application keeps every unregister function    *)
(* and may call it again, also after cleanup()                             *)

\* The application has called u and keeps it.
Kept(s, u) == [s EXCEPT !.unregisters = (@ \ {u}) \cup {[u EXCEPT !.spent = TRUE]}]

\* cleanup() has run on client c with these functions outstanding.
Outlived(s, c) ==
    [s EXCEPT !.unregisters =
        {IF u.client = c THEN [u EXCEPT !.spent = TRUE] ELSE u : u \in @}]

WebCallsUnregister(u) ==
    /\ caller = "native"
    /\ u \in unregisters
    /\ u.client = "web"
    /\ u.name \in Events
    /\ Step(Kept(Web_unregisterNativeEvent(S, u), u))

NativeCallsUnsubscribe(u) ==
    /\ caller = "web"
    /\ u \in unregisters
    /\ u.client = "native"
    /\ Step(Kept(Native_unsubscribe(S, u), u))

WebUnregisterAgain == \E u \in unregisters : WebCallsUnregister(u)

NativeUnsubscribeAgain == \E u \in unregisters : NativeCallsUnsubscribe(u)

WebCleanupKept ==
    /\ caller = "native"
    /\ Step(Outlived(Torn(Web_cleanup(S), "web"), "web"))

NativeCleanupKept ==
    /\ caller = "web"
    /\ Step(Outlived(Torn(Native_cleanup(S), "native"), "native"))

RepeatNext ==
    \/ WebReceivesEvent \/ NativeReceivesEvent
    \/ WebHandleNativeEvent \/ NativeHandleEvent
    \/ WebUnregisterAgain \/ NativeUnsubscribeAgain
    \/ WebCleanupKept \/ NativeCleanupKept

RepeatSpec == Init /\ [][RepeatNext]_vars

-----------------------------------------------------------------------------
(* Properties *)

\* C1: every promise created by a call has resolve or reject invoked on it at
\* most once, whatever the order of responses, timers, send failures and
\* cleanup.
C1_AtMostOneSettlement ==
    \A n \in DOMAIN calls : calls[n].settles <= 1

\* C1 witness: of two calls, one was settled by its timer and the other by
\* cleanup.
C1_Witness ==
    \E n, m \in DOMAIN calls :
        /\ calls[n].by = "timeout" /\ calls[n].settles = 1
        /\ calls[m].by = "cleanup" /\ calls[m].settles = 1

C3_RaceHasOneWinner ==
    [][\A n \in DOMAIN calls :
           calls[n].by \in {"response", "timeout"} =>
               /\ calls[n].settles = 1
               /\ calls[n].timer = (IF calls[n].by = "response" THEN "cleared"
                                    ELSE "fired")
               /\ n \notin DOMAIN pendingRequests[calls[n].owner]
               /\ calls'[n] = calls[n]
               /\ n \notin DOMAIN pendingRequests'[calls[n].owner]]_vars

\* C3 witness: the response won the race, and the timer of the call is
\* disarmed.
C3_Witness ==
    \E n \in DOMAIN calls :
        /\ calls[n].by = "response"
        /\ calls[n].timer = "cleared"
        /\ calls[n].settles = 1

\* What a step that drops a message of client c leaves alone: no promise is
\* settled, no map changes, nothing is sent, nothing is reported or thrown.
DroppedSilently(c) ==
    /\ UNCHANGED <<calls, pendingRequests, procedureHandlers, eventHandlers,
                   nativeHandlers, running, chan, handled, nextId>>
    /\ errorSink'[c] = {}
    /\ ~unhandled'[c]

\* C4: a response whose id is not in the client's pending map is dropped
\* silently.
C4_UnknownResponseDropped ==
    [][\A raw \in AnyResponses :
           /\ (WebResponseArrives(raw)
                  /\ raw.id \notin DOMAIN pendingRequests["web"])
                  => DroppedSilently("web")
           /\ (NativeResponseArrives(raw)
                  /\ raw.id \notin DOMAIN pendingRequests["native"])
                  => DroppedSilently("native")]_vars

\* C4 witness: a call has timed out, so that a response for it is unknown.
C4_Witness ==
    \E n \in DOMAIN calls :
        /\ calls[n].by = "timeout"
        /\ n \notin DOMAIN pendingRequests[calls[n].owner]
        /\ (calls[n].owner = "web" => listening)

\* The settlement a response asks for: resolve with its data, or reject with
\* a WebViewRPCError made of its error.
SettledAsToldBy(call, raw) ==
    /\ call.settles = 1
    /\ call.by = "response"
    /\ IF raw.error = NoError
       THEN call.state = "resolved" /\ call.value = raw.data
       ELSE /\ call.state = "rejected"
            /\ call.error.code = raw.error.code
            /\ call.error.message = raw.error.message

\* C5: a response changes no call but the one registered under the response's
\* id, and settles that one with its own payload.
C5_ResponseSettlesOwnRequest ==
    [][\A raw \in AnyResponses :
           (WebResponseArrives(raw) \/ NativeResponseArrives(raw)) =>
               \A n \in DOMAIN calls :
                   calls'[n] # calls[n] =>
                       /\ calls[n].id = raw.id
                       /\ SettledAsToldBy(calls'[n], raw)]_vars

\* C5 witness: the second of two concurrent calls was answered first.
C5_Witness ==
    \E n, m \in DOMAIN calls :
        /\ n < m
        /\ calls[n].owner = calls[m].owner
        /\ calls[n].state = "pending"
        /\ n \in DOMAIN pendingRequests[calls[n].owner]
        /\ calls[m].by = "response"

\* C6: when the timer of a pending, unsettled call fires, its entry is removed
\* and its promise is rejected with a timeout error (code TIMEOUT) carrying
\* the duration given in the options, or 5000 when none was given.
C6_TimeoutRejects ==
    [][\A n \in DOMAIN calls :
           (calls[n].timer = "armed" /\ calls'[n].timer = "fired") =>
               LET c == calls[n].owner
                   t == IF timeoutOpt[c] = {} THEN 5000
                        ELSE CHOOSE ms \in timeoutOpt[c] : TRUE
               IN  /\ n \in DOMAIN pendingRequests[c]
                   /\ calls[n].settles = 0
                   /\ n \notin DOMAIN pendingRequests'[c]
                   /\ calls'[n].state = "rejected"
                   /\ calls'[n].settles = 1
                   /\ calls'[n].error.code = "TIMEOUT"
                   /\ calls'[n].error.timeout = t
                   /\ calls'[n].error.message = TimeoutMessage(t)]_vars

\* C6 witness: a call was rejected by its timer with the configured duration.
C6_Witness ==
    \E n \in DOMAIN calls :
        /\ calls[n].by = "timeout"
        /\ calls[n].error.code = "TIMEOUT"
        /\ calls[n].error.timeout = CustomTimeout

\* The receiving client can send right now: the page runs in a WebView whose
\* bridge object is present (web), webViewRef.current is non-null (native).
ChannelAvailable(c) ==
    IF c = "web" THEN isWebView /\ bridge ELSE webViewRef

\* C7 as stated: a call settled by the response to a request whose handler
\* returned v is resolved with v.
C7_ResolvesWithReturnedValue ==
    \A n \in DOMAIN calls :
        (calls[n].by = "response" /\ handled[n].kind = "return") =>
            /\ calls[n].state = "resolved"
            /\ calls[n].value = handled[n].value

\* C7: a call settled by the response to a request whose handler returned v
\* is resolved, exactly once, with what JSON.parse(JSON.stringify(v)) is: v
\* itself for a plain JSON value, the ISO string for a Date.
C7_ResolvesWithDecodedValue ==
    \A n \in DOMAIN calls :
        (calls[n].by = "response" /\ handled[n].kind = "return") =>
            /\ calls[n].state = "resolved"
            /\ calls[n].settles = 1
            /\ calls[n].value = (IF handled[n].value = "date" THEN "iso"
                                 ELSE handled[n].value)

\* C7 witness: the handler returned a Date and the caller's promise is
\* resolved by the response.
C7_Witness ==
    \E n \in DOMAIN calls :
        /\ calls[n].by = "response"
        /\ calls[n].state = "resolved"
        /\ handled[n].kind = "return"
        /\ handled[n].value = "date"

\* C8 as stated: the step that finds no handler for request id puts a response
\* with that id and code NO_HANDLER on the way to the caller, and a call so
\* answered is rejected with code NO_HANDLER.
C8_NoHandlerAnswered ==
    [][\A id \in Ids :
           (handled[id] = NotHandled /\ handled'[id] = NoHandler) =>
               \E raw \in BagToSet(chan'[caller]) :
                   /\ CopiesIn(raw, chan'[caller]) = CopiesIn(raw, chan[caller]) + 1
                   /\ raw.type = "response"
                   /\ raw.id = id
                   /\ raw.error.code = "NO_HANDLER"]_vars

\* C8: while the receiver's channel is available, the step that finds no
\* handler for request id puts exactly one response with that id and code
\* NO_HANDLER on the way to the caller; and a call settled by the response to
\* such a request is rejected with code NO_HANDLER.
C8_NoHandlerAnsweredIfAvailable ==
    /\ [][\A id \in Ids :
              (/\ handled[id] = NotHandled
               /\ handled'[id] = NoHandler
               /\ ChannelAvailable(Peer(caller))) =>
                  \E raw \in BagToSet(chan'[caller]) :
                      /\ chan'[caller] = chan[caller] (+) SetToBag({raw})
                      /\ raw.type = "response"
                      /\ raw.id = id
                      /\ raw.error.code = "NO_HANDLER"]_vars
    /\ [](\A n \in DOMAIN calls :
              (calls[n].by = "response" /\ handled[n] = NoHandler) =>
                  /\ calls[n].state = "rejected"
                  /\ calls[n].error.code = "NO_HANDLER")

\* C8 witness: a request found no handler and its caller is rejected with
\* NO_HANDLER.
C8_Witness ==
    \E n \in DOMAIN calls :
        /\ handled[n] = NoHandler
        /\ calls[n].by = "response"
        /\ calls[n].error.code = "NO_HANDLER"

\* C9 as stated: the step in which the handler of request id throws an error
\* with message m puts a response with that id and error {HANDLER_ERROR, m}
\* on the way to the caller.
C9_HandlerErrorAnswered ==
    [][\A id \in Ids :
           (handled[id] = NotHandled /\ handled'[id].kind = "throw") =>
               \E raw \in BagToSet(chan'[caller]) :
                   /\ CopiesIn(raw, chan'[caller]) = CopiesIn(raw, chan[caller]) + 1
                   /\ raw.type = "response"
                   /\ raw.id = id
                   /\ raw.error.code = "HANDLER_ERROR"
                   /\ raw.error.message = handled'[id].error.message]_vars

\* C9: while the receiver's channel is available, the step in which the
\* handler of request id throws an error with message m puts exactly one
\* response with that id and error {HANDLER_ERROR, m} on the way to the
\* caller; and a call settled by the response to such a request is rejected
\* with code HANDLER_ERROR and message m.
C9_HandlerErrorAnsweredIfAvailable ==
    /\ [][\A id \in Ids :
              (/\ handled[id] = NotHandled
               /\ handled'[id].kind = "throw"
               /\ ChannelAvailable(Peer(caller))) =>
                  \E raw \in BagToSet(chan'[caller]) :
                      /\ chan'[caller] = chan[caller] (+) SetToBag({raw})
                      /\ raw.type = "response"
                      /\ raw.id = id
                      /\ raw.error.code = "HANDLER_ERROR"
                      /\ raw.error.message = handled'[id].error.message]_vars
    /\ [](\A n \in DOMAIN calls :
              (calls[n].by = "response" /\ handled[n].kind = "throw") =>
                  /\ calls[n].state = "rejected"
                  /\ calls[n].error.code = "HANDLER_ERROR"
                  /\ calls[n].error.message = handled[n].error.message)

\* C9 witness: a handler threw Error('boom') and its caller is rejected with
\* HANDLER_ERROR and that message.
C9_Witness ==
    \E n \in DOMAIN calls :
        /\ handled[n].kind = "throw"
        /\ calls[n].by = "response"
        /\ calls[n].error.code = "HANDLER_ERROR"
        /\ calls[n].error.message = "boom"

\* C10: the step in which the handler of request id throws passes the thrown
\* error to the receiving client's onError.
C10_HandlerErrorReported ==
    [][\A id \in Ids :
           (handled[id] = NotHandled /\ handled'[id].kind = "throw") =>
               \E e \in errorSink'[Peer(caller)] :
                   e.error = handled'[id].error]_vars

\* C12: cleanup() rejects every pending request of the client with the fixed
\* reason (web: WebViewRPCError 'Client cleanup' with code CLEANUP; native:
\* Error 'Client cleanup called'), disarms its timer and empties the pending
\* map; a call rejected by cleanup never changes again, so no timeout fires
\* for it.
C12_CleanupRejectsAll ==
    /\ [][WebCleanup =>
             /\ pendingRequests'["web"] = EmptyMap
             /\ \A n \in DOMAIN pendingRequests["web"] :
                    /\ calls'[n].state = "rejected"
                    /\ calls'[n].settles = 1
                    /\ calls'[n].error.code = "CLEANUP"
                    /\ calls'[n].error.message = "Client cleanup"
                    /\ calls'[n].timer = "cleared"]_vars
    /\ [][NativeCleanup =>
             /\ pendingRequests'["native"] = EmptyMap
             /\ \A n \in DOMAIN pendingRequests["native"] :
                    /\ calls'[n].state = "rejected"
                    /\ calls'[n].settles = 1
                    /\ calls'[n].error.code = "none"
                    /\ calls'[n].error.message = "Client cleanup called"
                    /\ calls'[n].timer = "cleared"]_vars
    /\ [][\A n \in DOMAIN calls :
              calls[n].by = "cleanup" =>
                  /\ calls[n].timer = "cleared"
                  /\ calls'[n] = calls[n]]_vars

\* C12 witness: cleanup has rejected two pending requests at once.
C12_Witness ==
    \E n, m \in DOMAIN calls :
        /\ n # m
        /\ calls[n].by = "cleanup" /\ calls[n].timer = "cleared"
        /\ calls[m].by = "cleanup" /\ calls[m].timer = "cleared"
        /\ pendingRequests[calls[n].owner] = EmptyMap

\* C13: in every reachable state, cleanup() called right after cleanup()
\* leaves the state as the first call left it: nothing is rejected, reported
\* or thrown by the second call.
C13_CleanupIdempotent ==
    /\ Web_cleanup(Web_cleanup(S)) = Web_cleanup(S)
    /\ Native_cleanup(Native_cleanup(S)) = Native_cleanup(S)
    /\ Web_cleanup(Web_cleanup(S)).exc = NoError
    /\ Native_cleanup(Native_cleanup(S)).exc = NoError

\* C13 witness: cleanup() has something to do: requests are pending on a
\* client whose cleanup already ran once.
C13_Witness ==
    \E n, m \in DOMAIN calls :
        /\ calls[n].by = "cleanup"
        /\ calls[m].state = "pending"
        /\ calls[m].owner = calls[n].owner
        /\ m \in DOMAIN pendingRequests[calls[m].owner]

\* The listeners registered on client c under a name, in registration order.
Listeners(c, name) ==
    SetAt(S, IF c = "web" THEN eventHandlers[name] ELSE nativeHandlers[name])

\* What the arrival of an event with these throwing listeners leaves of the
\* listeners registered at that moment: each invoked once, in registration
\* order, and an error reported iff one of them threw.
AllInvoked(c, registered, throwing) ==
    /\ invoked' = registered
    /\ errorSink'[c] # {} <=> throwing \cap Range(registered) # {}
    /\ \A e \in errorSink'[c] : e.at = "handleEvent"
    /\ ~unhandled'[c]

\* C11: an inbound event invokes every listener registered under its name at
\* that moment exactly once, in registration order; a listener that throws
\* has its error reported to the error sink and does not keep the later
\* listeners from being invoked.  On both clients.
C11_EveryListenerInvoked ==
    [][\A raw \in AnyEvents, throwing \in SUBSET Handlers :
          /\ (listening /\ WebEventArrives(raw, throwing))
                => AllInvoked("web", Listeners("web", raw.name), throwing)
          /\ NativeEventArrives(raw, throwing)
                => AllInvoked("native", Listeners("native", raw.name), throwing)
      ]_vars

\* An event has reached two listeners of which the first threw.
C11_Witness ==
    /\ Len(invoked) = 2
    /\ errorSink[Peer(caller)] # {}
    /\ invoked = Listeners(Peer(caller), "evt")

\* C14: after cleanup() has been called on a client, no inbound message
\* delivered to it causes a request handler or an event listener to be
\* invoked.
C14_NothingInvokedAfterCleanup ==
    [][cleaned[Peer(caller)] => invoked' = <<>> /\ running' \subseteq running]_vars

\* This step puts no message of client c on its way to the peer.
NothingSent(c) ==
    \A raw \in BagToSet(chan'[Peer(c)]) :
        CopiesIn(raw, chan'[Peer(c)]) <= CopiesIn(raw, chan[Peer(c)])

\* C15: after cleanup() has been called on a client its sends are refused: a
\* call or emit made after it, and the response of a handler that was still
\* running at that moment, put no message on the way to the peer.  Stated
\* for the web client, whose cleanup() is the only step that detaches the
\* window listener.
C15_NoSendAfterCleanup ==
    [][~listening => NothingSent("web")]_vars

\* The request handler registered last under a name on client c, among those
\* still registered.
LatestHandler(c, name) ==
    IF c = "web" THEN procedureHandlers[name]
    ELSE LET handlers == SetAt(S, nativeHandlers[name])
         IN  IF handlers = <<>> THEN "none" ELSE handlers[Len(handlers)]

\* C16: registering a request handler for an operation that already has one
\* replaces it: an inbound request for the operation invokes the handler
\* registered last, and not an earlier one.
C16_LatestHandlerInvoked ==
    [][\A raw \in BagToSet(chan["web"]) \cup BagToSet(chan["native"]) :
          /\ raw.type = "request"
          /\ \/ listening /\ WebDelivers(raw, {})
             \/ NativeDelivers(raw, {})
          => \A task \in running' \ running :
                 task.handler = LatestHandler(task.client, raw.name)
      ]_vars

\* C17: once request handler h1 of an operation has been replaced by h2, the
\* unregister function returned for h1 leaves h2 registered: a later request
\* for the operation still invokes h2.
C17_StaleUnregisterKeepsHandler ==
    [][\A u \in unregisters :
          /\ u.name \in Procedures
          /\ LatestHandler(u.client, u.name) \notin {"none", u.handler}
          /\ WebUnregisters(u) \/ NativeUnsubscribes(u)
          => LatestHandler(u.client, u.name)' = LatestHandler(u.client, u.name)
      ]_vars

\* C18: the unregister function returned for an event listener removes
\* exactly that listener: the other listeners of the name stay registered, in
\* their order, for the next event, and the name's entry is deleted from the
\* registry once no listener is left.
C18_UnregisterRemovesExactlyOne ==
    [][\A u \in unregisters :
          /\ u.name \in Events
          /\ WebUnregistersListener(u) \/ NativeUnsubscribes(u)
          => /\ Listeners(u.client, u.name)'
                   = SetDelete(Listeners(u.client, u.name), u.handler)
             /\ Listeners(u.client, u.name)' = <<>>
                   => eventHandlers'[u.name] = 0 /\ nativeHandlers'[u.name] = 0
      ]_vars

\* In state s the call with this id was rejected at once by client c: error
\* reported, promise rejected, timer cleared, pending entry removed.
SettledAtOnce(s, c, id) ==
    /\ s.errorSink[c] # {}
    /\ s.calls[id].state = "rejected"
    /\ s.calls[id].timer = "cleared"
    /\ id \notin DOMAIN s.pendingRequests[c]

\* C19: when serializing an outbound request fails, the error goes to the
\* error sink and the request's own pending entry is settled at once (promise
\* rejected with the error, timer cleared, entry removed), so the caller does
\* not wait for the timeout.  On both clients, whenever the channel is
\* available and the request is therefore serialized.
C19_EncodeFailureSettles ==
    \A procedure \in Procedures :
        nextId <= MaxIds =>
            LET id == generateCorrelationId(S)
            IN  /\ isWebView =>
                       SettledAtOnce(Web_call(S, procedure, "circ"), "web", id)
                /\ webViewRef =>
                       SettledAtOnce(Native_callWeb(S, procedure, "circ"),
                                     "native", id)

\* This step made a call on client c that was rejected at once and left
\* nothing behind: no message, no pending entry, no armed timer.
RejectedUnsent(c) ==
    LET id == generateCorrelationId(S)
    IN  /\ id \notin DOMAIN calls
        /\ calls'[id].state = "rejected"
        /\ calls'[id].settles = 1
        /\ calls'[id].timer # "armed"
        /\ pendingRequests'[c] = pendingRequests[c]
        /\ NothingSent(c)

\* This step made an emit on client c that was dropped: no message, no error
\* reported or thrown, no call touched.
EmitDropped(c) ==
    /\ NothingSent(c)
    /\ errorSink'[c] = {}
    /\ ~unhandled'[c]
    /\ calls' = calls
    /\ pendingRequests' = pendingRequests

\* C20: with the channel unavailable at send time (web: not in a WebView;
\* native: the WebView ref is null) a call is rejected at once, nothing is
\* transmitted and no pending entry or armed timer of it remains; an emit is
\* dropped silently, with no error raised.
C20_UnavailableChannel ==
    [][/\ (~isWebView /\ WebCall) => RejectedUnsent("web")
       /\ (~webViewRef /\ NativeCall) => RejectedUnsent("native")
       /\ (~isWebView /\ WebEmit) => EmitDropped("web")
       /\ (~webViewRef /\ (NativeEmitWeb \/ NativeEmitNative))
             => EmitDropped("native")
      ]_vars

\* The native client made a call that was rejected for the missing WebView
\* and an emit of which nothing was sent.
C20_Witness ==
    /\ caller = "native"
    /\ \E n \in DOMAIN calls : calls[n].by = "unavailable"
    /\ nextId - 1 > Cardinality(DOMAIN calls)
    /\ chan["web"] = EmptyBag
    /\ ~webViewRef

\* This step left everything of the clients as it was, but for what client c
\* reported: no call settled, no map or registry changed, no handler or
\* listener invoked, nothing sent.
OnlyReported(c) ==
    /\ UNCHANGED <<calls, pendingRequests, procedureHandlers, eventHandlers,
                   nativeHandlers, sets, running, chan, handled, nextId>>
    /\ invoked' = <<>>
    /\ ~unhandled'[c]

\* C21: when decoding an inbound raw message fails, the error is reported to
\* the error sink and the message is dropped: no response is sent, no handler
\* or listener is invoked, no pending entry changes, and handleMessage does
\* not throw.
C21_DecodeFailureReported ==
    [][/\ WebStrayArrives(InvalidJson) =>
             /\ OnlyReported("web")
             /\ errorSink'["web"] # {}
             /\ Web_handleMessage(S, InvalidJson, {}).exc = NoError
       /\ NativeStrayArrives(InvalidJson) =>
             /\ OnlyReported("native")
             /\ errorSink'["native"] # {}
             /\ Native_handleMessage(S, InvalidJson, {}).exc = NoError
      ]_vars

\* Undecodable text has reached a client that has a call pending and a
\* handler suspended.
C21_Witness ==
    /\ \E e \in errorSink[Peer(caller)] : e.error.message = "invalid JSON"
    /\ pendingRequests[Peer(caller)] # EmptyMap
    /\ \E task \in running : task.client = Peer(caller)

\* Client c observed an error of its own in this step: a decode or encode
\* failure, or a call rejected for the unavailable channel.
LocalError(c) ==
    \/ \E e \in errorSink'[c] :
           e.at \in {"handleMessage", "postToNative", "postMessage"}
    \/ \E n \in DOMAIN calls' \ DOMAIN calls :
           calls'[n].owner = c /\ calls'[n].by = "unavailable"

\* This step puts no response of client c on its way to the peer.
NoResponseSent(c) ==
    \A raw \in BagToSet(chan'[Peer(c)]) :
        raw.type = "response" =>
            CopiesIn(raw, chan'[Peer(c)]) <= CopiesIn(raw, chan[Peer(c)])

\* C22: no message on the channel carries the error code TIMEOUT, and an
\* error a client observes locally (decode failure, encode failure,
\* unavailable channel) never makes it send a response to the peer.
C22_LocalErrorsStayLocal ==
    /\ [](\A c \in Clients : \A raw \in BagToSet(chan[c]) :
              raw.error.code # "TIMEOUT")
    /\ [][\A c \in Clients : LocalError(c) => NoResponseSent(c)]_vars

\* A handler's result could not be serialized: the failure was reported and
\* no response for the request is on its way.
C22_Witness ==
    \E id \in Ids :
        /\ handled[id] \notin {NotHandled, NoHandler}
        /\ handled[id].value = "circ"
        /\ \E e \in errorSink[Peer(caller)] :
               e.id = id /\ e.at \in {"postToNative", "postMessage"}
        /\ \A raw \in BagToSet(chan[caller]) : raw.id # id

\* C23: when a request handler throws an error that carries a code of its
\* own, the error response sent to the peer carries that code (and the caller
\* is rejected with it).  Stated for the response, with the channel
\* available when the handler fails.
C23_DomainCodeCrosses ==
    [][\A task \in running, outcome \in DomainOutcomes :
          /\ outcome.kind = "throw"
          /\ outcome.error.code \notin {"none", "TIMEOUT"}
          /\ ChannelAvailable(task.client)
          /\ WebHandlerEnds(task, outcome) \/ NativeHandlerEnds(task, outcome)
          => \E raw \in BagToSet(chan'[Peer(task.client)]) :
                 /\ raw.type = "response"
                 /\ raw.id = task.id
                 /\ raw.error.code = outcome.error.code
      ]_vars

\* Call n was settled in this step.
SettledNow(n) ==
    /\ n \in DOMAIN calls'
    /\ calls'[n].settles > 0
    /\ n \in DOMAIN calls => calls[n].settles = 0

\* C24: every error a client observes locally (request timeout, rejection
\* for the unavailable channel, encode failure, decode failure, listener
\* exception, handler exception) is passed to the configured error sink.
\* Stated for the errors that settle a call of the client.
C24_EveryLocalErrorReported ==
    [][\A n \in DOMAIN calls' :
          /\ SettledNow(n)
          /\ calls'[n].by \in {"timeout", "unavailable", "sendfail"}
          => errorSink'[calls'[n].owner] # {}
      ]_vars

\* The responses with this id among the messages sent to client c.
ResponsesTo(c, id) ==
    {raw \in BagToSet(chan[c]) : raw.type = "response" /\ raw.id = id}

\* C25: for each inbound request at most one handler is invoked and at most
\* one response is sent, and that response carries the id of the request.
\* The responses sent stay on their way to the peer, which takes none.
C25_OneHandlerOneResponse ==
    \A id \in Ids :
        /\ Cardinality({task \in running : task.id = id}) <= 1
        /\ handled[id] # NotHandled => \A task \in running : task.id # id
        /\ Cardinality(ResponsesTo(caller, id)) <= 1
        /\ \A raw \in ResponsesTo(caller, id) :
               /\ CopiesIn(raw, chan[caller]) = 1
               /\ handled[id] # NotHandled

\* Two handlers are registered for the operation of a request that has been
\* answered, and another request has its handler suspended.
C25_Witness ==
    /\ \E id \in Ids : ResponsesTo(caller, id) # {} /\ handled[id] # NoHandler
    /\ running # {}
    /\ caller = "web" => Len(SetAt(S, nativeHandlers["op"])) = 2

\* C26: every response a client produces has exactly one of data and error
\* set: data when the handler completed, error when it failed or none was
\* registered; never both and never neither.  Stated for the responses as
\* they are sent.
C26_ExactlyOneOfDataAndError ==
    \A id \in Ids : \A raw \in ResponsesTo(caller, id) :
        /\ (raw.data # "absent") # (raw.error # NoError)
        /\ raw.error = NoError <=> handled[id] # NoHandler /\ handled[id].kind = "return"

Sent(n) ==
    \E raw \in BagToSet(chan[Peer(calls[n].owner)]) :
        raw.type = "request" /\ raw.id = n

\* C28: the pending map holds exactly the requests that were sent and are
\* not yet settled, each with one armed timer; once a request is settled, by
\* whatever path, its entry is absent and its timer can no longer fire.
C28_PendingMapExact ==
    \A c \in Clients :
        /\ DOMAIN pendingRequests[c] =
               {n \in DOMAIN calls :
                    calls[n].owner = c /\ Sent(n) /\ calls[n].settles = 0}
        /\ \A n \in DOMAIN pendingRequests[c] :
               calls[n].timer = "armed" /\ pendingRequests[c][n].timeoutId = n
        /\ \A n \in DOMAIN calls :
               calls[n].owner = c /\ calls[n].settles > 0 =>
                   n \notin DOMAIN pendingRequests[c] /\ calls[n].timer # "armed"

\* The request was dispatched in this step by client c: its handler was
\* invoked, or it was answered for want of one.
Dispatched(c, raw) ==
    IF LatestHandler(c, raw.name) = "none"
    THEN handled'[raw.id] = NoHandler
    ELSE \E task \in running' \ running : task.client = c /\ task.id = raw.id

StrayArrives(raw) == WebStrayArrives(raw) \/ NativeStrayArrives(raw)

\* C30, as stated: a successfully decoded inbound message whose type is none
\* of request, response and event is ignored: no handler or listener is
\* invoked, nothing is sent, no pending entry changes and no exception is
\* raised.  The decoded value may be an object with another type, or null.
C30_OtherMessagesIgnored ==
    [][\A raw \in {UnknownType, NullJson} :
          StrayArrives(raw) =>
              DroppedSilently(Peer(caller)) /\ invoked' = <<>>
      ]_vars

\* C30, amended: an object with another type is ignored in just that way;
\* the decoded value null makes the read of message.type throw a TypeError,
\* which handleMessage catches and reports to the error sink, and nothing
\* else happens.
C30_OtherTypesIgnoredNullReported ==
    [][/\ StrayArrives(UnknownType) =>
             DroppedSilently(Peer(caller)) /\ invoked' = <<>>
       /\ StrayArrives(NullJson) =>
             /\ OnlyReported(Peer(caller))
             /\ errorSink'[Peer(caller)] =
                    {[at |-> "handleMessage", id |-> 0, error |-> TypeError]}
      ]_vars

\* The text null has reached a client that has a call pending and a handler
\* suspended.
C30_Witness ==
    /\ \E e \in errorSink[Peer(caller)] : e.error = TypeError
    /\ pendingRequests[Peer(caller)] # EmptyMap
    /\ \E task \in running : task.client = Peer(caller)
    /\ procedureHandlers["op"] # "none" \/ nativeHandlers["op"] # 0

\* The event arrives at the listening client in this step.
EventArrives(raw, throwing) ==
    WebEventArrives(raw, throwing) \/ NativeEventArrives(raw, throwing)

\* C31: handling an inbound event never makes the client send a message in
\* reply and never changes its pending-request map or the calls the map
\* stands for, whatever the id of the event and whether or not a listener
\* throws.
C31_EventsGetNoReply ==
    [][\A raw \in AnyEvents, throwing \in SUBSET Handlers :
          EventArrives(raw, throwing) =>
              /\ chan' = chan
              /\ pendingRequests' = pendingRequests
              /\ calls' = calls
              /\ ~unhandled'[Peer(caller)]
      ]_vars

\* An event has reached a listener, which threw, on a client that has a call
\* pending.
C31_Witness ==
    /\ invoked # <<>>
    /\ errorSink[Peer(caller)] # {}
    /\ pendingRequests[Peer(caller)] # EmptyMap

\* The text this step put on its way to client c.
Encoded(c, raw) == chan'[c] = chan[c] (+) SetToBag({raw})

\* What JSON.parse(JSON.stringify(v)) is for a payload v: a Date comes back
\* as its ISO string, the other payloads as they were.
JsonValue(v) == IF v = "date" THEN "iso" ELSE v

\* C32, as stated: for a message of any of the three kinds, decoding what the
\* default serializer made of it yields a message with the same type, name,
\* id and payload.
C32_RoundTrip ==
    [][\A message \in Messages :
          (WebPosts(message) \/ NativePosts(message))
              /\ ~SerializerThrows(message)
          => \E raw \in BagToSet(chan'[Peer(caller)]) :
                 /\ Encoded(Peer(caller), raw)
                 /\ defaultDeserializer(raw).type = message.type
                 /\ defaultDeserializer(raw).name = message.name
                 /\ defaultDeserializer(raw).id = message.id
                 /\ defaultDeserializer(raw).data = message.data
      ]_vars

\* C32, amended: the decoded message has the same type, name, id and error,
\* and the payload JSON.parse(JSON.stringify(payload)): the payload itself
\* when it is a plain JSON value or undefined, the ISO string for a Date.
C32_RoundTripOfJsonValues ==
    [][\A message \in Messages :
          (WebPosts(message) \/ NativePosts(message))
              /\ ~SerializerThrows(message)
          => \E raw \in BagToSet(chan'[Peer(caller)]) :
                 /\ Encoded(Peer(caller), raw)
                 /\ defaultDeserializer(raw) =
                        [message EXCEPT !.data = JsonValue(@)]
      ]_vars

\* Messages of two kinds are on their way, one of them without payload, and
\* the peer decodes them.
C32_Witness ==
    \E m1, m2 \in BagToSet(chan[Peer(caller)]) :
        /\ m1.type # m2.type
        /\ m1.data = "absent"
        /\ defaultDeserializer(m1).data = "undef"
        /\ m2.data = "iso"

\* A message client c sent, with the id its twin has on the other client:
\* the ids a client generates itself are counted in pairs.
Normal(c, raw) ==
    IF raw.type \in {"request", "event"} /\ c = "native"
    THEN [raw EXCEPT !.id = @ - 1]
    ELSE raw

\* The messages client c has sent so far, each with the number of its copies.
Outbound(c) ==
    {<<Normal(c, raw), CopiesIn(raw, chan[Peer(c)])>> :
         raw \in BagToSet(chan[Peer(c)])}

\* The request handlers client c has invoked and that are still running.
Invocations(c) ==
    {<<task.id, task.handler>> : task \in {t \in running : t.client = c}}

\* How the promise of call n stands, as its caller sees it.
Settlement(n) ==
    <<calls[n].state, calls[n].value, calls[n].error.code,
      calls[n].error.message>>

\* C33: after the same local operations and inbound messages, with the
\* channel available, the web and the native client have sent the same
\* messages, invoked the same request handlers and settled their calls in the
\* same way, and an event arriving now has the same listeners invoked on both.
C33_SameProtocol ==
    /\ Outbound("web") = Outbound("native")
    /\ Invocations("web") = Invocations("native")
    /\ \A n \in DOMAIN calls :
           calls[n].owner = "web" /\ Twin(n) \in DOMAIN calls =>
               Settlement(n) = Settlement(Twin(n))
    /\ \A raw \in AnyEvents, throwing \in SUBSET Handlers :
           Web_onMessage(S, raw, throwing).invoked
               = Native_handleMessage(S, raw, throwing).invoked

\* C34: isPending of useProcedure is true exactly while a call issued
\* through the hook is pending: true from the invocation of mutate on, false
\* only when no invocation of mutate is still awaiting the settlement of its
\* call, also when several invocations overlap.
C34_IsPendingWhileAwaiting ==
    /\ hooks.isPending => hooks.awaiting # {}
    /\ (\E n \in hooks.awaiting : calls[n].state = "pending") => hooks.isPending

\* The registrations of useEvent's function on the listening client.
Registrations ==
    {i \in DOMAIN Listeners(Peer(caller), "evt") :
         Listeners(Peer(caller), "evt")[i] = StableHandler}

\* This step invoked useEvent's function this many times.
StableInvoked ==
    Cardinality({i \in DOMAIN invoked' : invoked'[i] = StableHandler})

\* C35: with useEvent the registry keeps a single registration whatever the
\* renders; an inbound event invokes the registered function exactly once,
\* and that function calls the handler supplied by the most recent render;
\* after the component has unmounted an event invokes nothing of it.
C35_LatestHandlerOnly ==
    /\ [](Cardinality(Registrations) <= 1)
    /\ [][\A raw \in AnyEvents, throwing \in SUBSET Handlers :
             EventArrives(raw, throwing) =>
                 IF hooks.stableHandler = "none" THEN StableInvoked = 0
                 ELSE /\ StableInvoked = 1
                      /\ hooks.handlerRef = hooks.handler
         ]_vars

\* State s has the pending maps and the calls of the current state.
PendingUntouched(s) ==
    /\ s.pendingRequests = pendingRequests
    /\ s.calls = calls

\* C36: handling an inbound request, and sending its response, leaves every
\* entry of the receiving client's own pending-request map as it was: for
\* every request id, also one that equals the id of a pending call of the
\* client, and for every state of the channel.
C36_RequestLeavesPendingAlone ==
    /\ \A raw \in AnyRequests :
           /\ PendingUntouched(Web_handleMessage(S, raw, {}))
           /\ PendingUntouched(Native_handleMessage(S, raw, {}))
    /\ \A task \in running, outcome \in DomainOutcomes :
           IF task.client = "web"
           THEN PendingUntouched(Web_handleRequestSettled(S, task, outcome))
           ELSE PendingUntouched(Native_handleRequestSettled(S, task, outcome))

\* C37: on the native client the handling of an inbound request, up to and
\* including the sending of its response (success, HANDLER_ERROR or
\* NO_HANDLER), ends without an uncaught exception and without an unhandled
\* promise rejection, also when the WebView ref is null at that moment.
C37_RequestHandlingNeverThrows ==
    [][(NativeReceivesRequest \/ NativeHandlerEnd) => ~unhandled'["native"]]_vars

\* C38: a call of an event listener's unregister function that is not its
\* first, or that comes after cleanup(), has no effect: the listeners of
\* every name, among them those registered later for the same name, stay
\* registered as they were.
C38_SpentUnregisterHasNoEffect ==
    [][\A u \in unregisters :
          /\ u.spent
          /\ WebCallsUnregister(u) \/ NativeCallsUnsubscribe(u)
          => \A name \in Names :
                 Listeners(u.client, name)' = Listeners(u.client, name)
      ]_vars

\* The response handleRequest builds from the outcome of the handler it
\* invoked for this task.
ResponseOf(task, outcome) ==
    IF outcome.kind = "return" THEN ResponseMessage(task.id, outcome.value)
    ELSE ErrorResponseMessage(task.id, outcome.error.message, "HANDLER_ERROR")

\* The handler invoked for this task is no longer the one a request for the
\* operation would get: it was unregistered, or another one was registered.
Superseded(task) ==
    \A procedure \in Procedures :
        LatestHandler(task.client, procedure) # task.handler

\* C39: once a request handler has been invoked, unregistering it or
\* registering a replacement before it settles neither suppresses nor alters
\* the response: when the handler settles, exactly the response built from its
\* own outcome is sent, with the id of the request.  Stated for the moment
\* the handler settles, with the channel available and an outcome that can
\* be serialized.
C39_ResponseSurvivesUnregister ==
    [][\A task \in running, outcome \in DomainOutcomes :
          /\ Superseded(task)
          /\ ChannelAvailable(task.client)
          /\ ~SerializerThrows(ResponseOf(task, outcome))
          /\ WebHandlerEnds(task, outcome) \/ NativeHandlerEnds(task, outcome)
          => chan'[Peer(task.client)] =
                 chan[Peer(task.client)]
                     (+) SetToBag({defaultSerializer(ResponseOf(task, outcome))})
      ]_vars

\* A handler that was unregistered while it was running has thrown: the
\* error was reported by the step that just ended, with no handler
\* registered, and the error response for the request is on its way.
C39_Witness ==
    \E id \in Ids :
        /\ handled[id].kind = "throw"
        /\ \E e \in errorSink[Peer(caller)] :
               e.at = "handleRequest" /\ e.id = id
        /\ LatestHandler(Peer(caller), "op") = "none"
        /\ \E raw \in ResponsesTo(caller, id) :
               /\ raw.error.code = "HANDLER_ERROR"
               /\ raw.error.message = handled[id].error.message

\* In state s the web client has refused to send: nothing was handed to the
\* bridge and nothing reported.
Refused(s) ==
    /\ s.chan = chan
    /\ s.errorSink["web"] = {}

\* In state s exactly this message was handed to the bridge.
Transmitted(s, message) ==
    /\ s.chan["native"] =
           chan["native"] (+) SetToBag({defaultSerializer(message)})
    /\ s.errorSink["web"] = {}

\* In state s the web client has tried to send this message: it was handed to
\* the bridge if there is one, and otherwise the failure of the send was
\* reported and nothing was handed over.
Attempted(s, message) ==
    IF bridge THEN Transmitted(s, message)
    ELSE /\ s.chan = chan
         /\ s.errorSink["web"] =
                {[at |-> "postToNative", id |-> message.id, error |-> TypeError]}

\* What the web client does in the current state with a call, an emit, the
\* response of a handler that returns and the response for a request without
\* handler, each checked with SendOk when the client is in a WebView.
SendsByIsWebView(SendOk(_, _)) ==
    /\ \A event \in Events :
           LET s == Web_emit(S, event, "v")
               message == EventMessage(generateCorrelationId(S), event, "v")
           IN  IF isWebView THEN SendOk(s, message) ELSE Refused(s)
    /\ nextId <= MaxIds =>
           \A procedure \in Procedures :
               LET id == generateCorrelationId(S)
                   s == Web_call(S, procedure, "v")
               IN  IF isWebView
                   THEN /\ SendOk(s, RequestMessage(id, procedure, "v"))
                        /\ s.calls[id].state = "pending"
                   ELSE /\ Refused(s)
                        /\ s.calls[id].state = "rejected"
                        /\ s.calls[id].error.code = "NOT_IN_WEBVIEW"
    /\ \A task \in running :
           task.client = "web" =>
               LET s == Web_handleRequestSettled(
                            S, task, [kind |-> "return", value |-> "v",
                                      error |-> NoError])
               IN  IF isWebView THEN SendOk(s, ResponseMessage(task.id, "v"))
                   ELSE Refused(s)
    /\ \A raw \in AnyRequests :
           procedureHandlers[raw.name] = "none" =>
               LET s == Web_handleMessage(S, raw, {})
               IN  IF isWebView
                   THEN SendOk(s, ErrorResponseMessage(
                                      raw.id, NoHandlerMessage(raw.name),
                                      "NO_HANDLER"))
                   ELSE Refused(s)

\* C40, as stated: isWebView never changes after the client was created,
\* and every call, emit and response is sent when it is true and refused
\* when it is false, whether or not the bridge is there at send time.
C40_SentByIsWebViewAlone ==
    /\ [][isWebView' = isWebView]_vars
    /\ [](SendsByIsWebView(Transmitted))

\* C40, amended: isWebView never changes after the client was created, and
\* it alone decides whether a call, emit or response is refused or its send
\* attempted; an attempted send hands the message to the bridge if the bridge
\* is there at that time, and otherwise fails: the error is reported to the
\* error sink and nothing is handed over.
C40_AttemptedByIsWebViewAlone ==
    /\ [][isWebView' = isWebView]_vars
    /\ [](SendsByIsWebView(Attempted))

\* The page was in a WebView when the client was created and has lost the
\* bridge since: a call of the client was not refused, and its send failed.
C40_Witness ==
    /\ isWebView /\ ~bridge
    /\ \E n \in DOMAIN pendingRequests["web"] :
           /\ calls[n].state = "pending"
           /\ [at |-> "postToNative", id |-> n, error |-> TypeError]
                  \in errorSink["web"]
    /\ \E task \in running : task.client = "web"

====
